---- MODULE Spec2Model ----
(***************************************************************************)
(* The search-pattern preprocessor of backrefs/bregex.py                   *)
(* (RegexSearchTokens, RegexSearchTemplate) as a state machine.            *)
(*                                                                         *)
(* A pattern is a sequence of one-character strings.  One run of the       *)
(* machine is one call of RegexSearchTemplate(search, re_verbose,          *)
(* re_version).apply().  The Python call stack (main_group, subgroup,      *)
(* char_groups, verbose_comment) is the sequence `frames`; every action is *)
(* one iteration of the loop of the running frame, or one except clause.   *)
(***************************************************************************)
EXTENDS Integers, Sequences, FiniteSets, TLC

VARIABLES
    search,       \* self.search: the pattern given to the constructor
    binary,       \* self.binary
    re_verbose,   \* self.re_verbose
    re_version,   \* self.re_version
    special_only, \* the default of regex.escape's special_only argument in
                  \* the regex library the module is imported with
    pc,           \* "init": before apply; "scan": inside apply's loop;
                  \* "done": apply returned; "raised": apply raised
    string,       \* the tokenizer's string (the output of process_quotes)
    index,        \* RegexSearchTokens.index
    verbose,      \* self.verbose
    version,      \* self.version
    frames,       \* the call stack below apply, outermost first
    exc,          \* the exception being propagated, or "None"
    new_pattern,  \* apply's return value
    reentries,    \* history: the machine as it was at each re-entry of a loop
                  \* after a retry (tokenizer rewound, output reset)
    recurred,     \* history: a loop was re-entered with the machine exactly
                  \* as at an earlier re-entry
    template,     \* ReplaceTemplate._original: the replace template
    match,        \* the match object given to the expander: match[g] is
                  \* match.captures(g)
    end_found,    \* ReplaceTemplate.end_found
    group_slots,  \* ReplaceTemplate.group_slots
    literal_slots, \* ReplaceTemplate.literal_slots
    result,       \* ReplaceTemplate.result
    span_stack,   \* ReplaceTemplate.span_stack
    single_stack, \* ReplaceTemplate.single_stack
    slot,         \* ReplaceTemplate.slot
    groups,       \* ReplaceTemplate.groups
    literals,     \* ReplaceTemplate.literals
    expanded,     \* the return value of ReplaceTemplateExpander.expand
    use_format,   \* ReplaceTemplate.use_format
    manual,       \* ReplaceTemplate.manual
    auto,         \* ReplaceTemplate.auto
    auto_index,   \* ReplaceTemplate.auto_index
    objects,      \* the Replace and ReplaceTemplate objects built so far
    call,         \* the last call of a module-level function: its
                  \* arguments, what it did and how it ended
    expanders,    \* the ReplaceTemplateExpander objects on the plan
    applied       \* history: what earlier RegexSearchTemplate objects made
                  \* for the same pattern were given and what they returned

vars == <<search, binary, re_verbose, re_version, special_only, pc, string,
          index, verbose, version, frames, exc, new_pattern, reentries,
          recurred, template, match, end_found, group_slots, literal_slots,
          result, span_stack, single_stack, slot, groups, literals,
          expanded, use_format, manual, auto, auto_index, objects, call,
          expanders, applied>>

\* the constructor's arguments and the library default, with the history
\* of the earlier constructor calls
args == <<search, binary, re_verbose, re_version, special_only, applied>>

\* the state of a ReplaceTemplate and of its expansion
replace_vars == <<template, match, end_found, group_slots, literal_slots,
                  result, span_stack, single_stack, slot, groups, literals,
                  expanded, use_format, manual, auto, auto_index, objects,
                  call, expanders>>

-----------------------------------------------------------------------------
(* Characters and flag constants *)

BS == "\\"
NL == "\n"

VERSION0 == 8192
VERSION1 == 256
V1 == VERSION1
DEFAULT_VERSION == VERSION0

NoMatch == -1

-----------------------------------------------------------------------------
(* Sequence helpers (Python slices and searches) *)

\* s[a:b] with 0-based a, b and 0 <= a
Slice(s, a, b) == SubSeq(s, a + 1, IF b > Len(s) THEN Len(s) ELSE b)

\* s[i] with 0-based i
At(s, i) == s[i + 1]

\* `sub in s` for sequences
Contains(s, sub) ==
    \E k \in 0..(Len(s) - Len(sub)) : Slice(s, k, k + Len(sub)) = sub

RECURSIVE Flatten(_)
Flatten(ss) == IF ss = <<>> THEN <<>> ELSE Head(ss) \o Flatten(Tail(ss))

-----------------------------------------------------------------------------
(* escape = regex.escape, called with the pattern alone.  The library's    *)
(* default decides what gets a backslash in front of it: with              *)
(* special_only = FALSE (the default of the releases the module was        *)
(* written for) every character that is not an ASCII letter, a digit or    *)
(* "_"; with special_only = TRUE (the default of later releases) only the  *)
(* metacharacters and white space.                                         *)

ALNUM ==
    {"a", "b", "c", "d", "e", "f", "g", "h", "i", "j", "k", "l", "m",
     "n", "o", "p", "q", "r", "s", "t", "u", "v", "w", "x", "y", "z",
     "A", "B", "C", "D", "E", "F", "G", "H", "I", "J", "K", "L", "M",
     "N", "O", "P", "Q", "R", "S", "T", "U", "V", "W", "X", "Y", "Z",
     "0", "1", "2", "3", "4", "5", "6", "7", "8", "9", "_"}

METACHARS ==
    {"(", ")", "[", "]", "{", "}", "?", "*", "+", "|", "^", "$", BS, ".",
     "-", "#", "&", "~"}

WHITESPACE == {" ", "\t", NL, "\r", "\f"}

escape_char(c) ==
    IF special_only
    THEN IF c \in METACHARS \cup WHITESPACE THEN <<BS, c>> ELSE <<c>>
    ELSE IF c \in ALNUM THEN <<c>> ELSE <<BS, c>>

RECURSIVE escape(_)
escape(s) ==
    IF s = <<>> THEN <<>> ELSE escape_char(Head(s)) \o escape(Tail(s))

-----------------------------------------------------------------------------
(* RegexSearchTokens: the anchored lexeme matchers.  Each returns the end   *)
(* of the match (m.end(0)) or NoMatch; p is the position the match is      *)
(* anchored at (self.index - 1).                                           *)

GlobalFlagLetters == {"L", "a", "b", "e", "r", "u", "p"}
ScopedFlagLetters == {"i", "m", "s", "f", "w", "x"}

\* the end of one alternative of (?:[Laberup]|V0|V1|-?[imsfwx]) at q; the V0
\* dialect's expression has no "-?"
FlagUnitEnd(s, q, version0) ==
    IF q >= Len(s) THEN NoMatch
    ELSE IF At(s, q) \in GlobalFlagLetters THEN q + 1
    ELSE IF At(s, q) = "V" /\ q + 1 < Len(s) /\ At(s, q + 1) \in {"0", "1"} THEN q + 2
    ELSE IF At(s, q) \in ScopedFlagLetters THEN q + 1
    ELSE IF ~version0 /\ At(s, q) = "-" /\ q + 1 < Len(s)
            /\ At(s, q + 1) \in ScopedFlagLetters THEN q + 2
    ELSE NoMatch

\* the end of one alternative of (?:-?[ixmsfw]) at q
ScopedUnitEnd(s, q, version0) ==
    IF q >= Len(s) THEN NoMatch
    ELSE IF At(s, q) \in ScopedFlagLetters THEN q + 1
    ELSE IF ~version0 /\ At(s, q) = "-" /\ q + 1 < Len(s)
            /\ At(s, q + 1) \in ScopedFlagLetters THEN q + 2
    ELSE NoMatch

\* (?: ... )+ : the alternatives start with different characters and none
\* starts with the character that follows the repetition, so the greedy
\* repetition is the only way to match
RECURSIVE FlagUnitsEnd(_, _, _)
FlagUnitsEnd(s, q, version0) ==
    IF FlagUnitEnd(s, q, version0) = NoMatch THEN q
    ELSE FlagUnitsEnd(s, FlagUnitEnd(s, q, version0), version0)

RECURSIVE ScopedUnitsEnd(_, _, _)
ScopedUnitsEnd(s, q, version0) ==
    IF ScopedUnitEnd(s, q, version0) = NoMatch THEN q
    ELSE ScopedUnitsEnd(s, ScopedUnitEnd(s, q, version0), version0)

\* _regex_flags / _regex_flags_v0 matched at p
get_flags(s, p, version0) ==
    IF Slice(s, p, p + 2) # <<"(", "?">> THEN NoMatch
    ELSE LET e == FlagUnitsEnd(s, p + 2, version0)
         IN IF e > p + 2 /\ e < Len(s) /\ At(s, e) = ")" THEN e + 1 ELSE NoMatch

\* _scoped_regex_flags / _scoped_regex_flags_v0 matched at p
get_scoped_flags(s, p, version0) ==
    IF Slice(s, p, p + 2) # <<"(", "?">> THEN NoMatch
    ELSE LET e == ScopedUnitsEnd(s, p + 2, version0)
         IN IF e > p + 2 /\ e < Len(s) /\ At(s, e) = ":" THEN e + 1 ELSE NoMatch

\* get_comments with a pattern that never matches
get_comments_never(s, p) == NoMatch

\* _re_comments matched at p: \(\?\#[^)]*\)
get_comments(s, p) ==
    IF Slice(s, p, p + 3) # <<"(", "?", "#">> THEN NoMatch
    ELSE IF \E e \in (p + 3)..(Len(s) - 1) : At(s, e) = ")"
         THEN 1 + CHOOSE e \in (p + 3)..(Len(s) - 1) :
                    /\ At(s, e) = ")"
                    /\ \A d \in (p + 3)..(e - 1) : At(s, d) # ")"
         ELSE NoMatch

\* the end of the body (?:\\.|[^\\:}]+)+ of _re_posix started at q
RECURSIVE PosixBodyEnd(_, _)
PosixBodyEnd(s, q) ==
    IF q >= Len(s) THEN q
    ELSE IF At(s, q) = BS
         THEN IF q + 1 < Len(s) /\ At(s, q + 1) # NL
              THEN PosixBodyEnd(s, q + 2) ELSE q
    ELSE IF At(s, q) \in {":", "}"} THEN q
    ELSE PosixBodyEnd(s, q + 1)

\* _re_posix matched at p: \[:(?:\\.|[^\\:}]+)+:\]
get_posix(s, p) ==
    IF Slice(s, p, p + 2) # <<"[", ":">> THEN NoMatch
    ELSE LET e == PosixBodyEnd(s, p + 2)
         IN IF e > p + 2 /\ Slice(s, e, e + 2) = <<":", "]">> THEN e + 2 ELSE NoMatch

-----------------------------------------------------------------------------
(* RegexSearchTemplate: class attributes *)

_new_refs == {"e", "R", "Q", "E", "<", ">"}

\* the escape shorthand left as it is written
_re_escape_as_written == <<BS, "e">>

\* r"\x1b"
_re_escape == <<BS, "x", "1", "b">>

\* r"\b(?=\w)"
_re_start_wb == <<BS, "b", "(", "?", "=", BS, "w", ")">>

\* r"\b(?<=\w)"
_re_end_wb == <<BS, "b", "(", "?", "<", "=", BS, "w", ")">>

\* r'(?>\r\n|\n|\x0b|\f|\r|\x85)'
_binary_line_break ==
    <<"(", "?", ">", BS, "r", BS, "n", "|", BS, "n", "|", BS, "x", "0", "b", "|",
      BS, "f", "|", BS, "r", "|", BS, "x", "8", "5", ")">>

\* r'(?>\r\n|\n|\x0b|\f|\r|\x85|\u2028|\u2029)'
_line_break ==
    SubSeq(_binary_line_break, 1, Len(_binary_line_break) - 1)
    \o <<"|", BS, "u", "2", "0", "2", "8", "|", BS, "u", "2", "0", "2", "9", ")">>

\* __init__ choosing the text pattern's line break whatever the pattern
_re_line_break_text(bin) == _line_break

\* self._re_line_break, chosen by __init__
_re_line_break(bin) == IF bin THEN _binary_line_break ELSE _line_break

-----------------------------------------------------------------------------
(* process_quotes: one pass over the whole pattern.  k is the tokenizer's   *)
(* index; escaped, in_quotes, current and quoted are the loop's locals.    *)

\* an escaped Q inside an open span dropping its backslash
quoted_escape_bare_q(t) == IF t = "Q" THEN <<t>> ELSE <<BS, t>>

\* quoted.extend(["\\", t]): an escaped character other than E met inside an
\* open span, an escaped Q included
quoted_escape(t) == <<BS, t>>

RECURSIVE process_quotes_loop(_, _, _, _, _, _)
process_quotes_loop(s, k, escaped, in_quotes, current, quoted) ==
    IF k >= Len(s)
    THEN LET q2 == IF in_quotes /\ escaped THEN quoted \o <<BS>> ELSE quoted
             c2 == IF ~in_quotes /\ escaped THEN current \o <<BS>> ELSE current
         IN IF q2 # <<>> THEN c2 \o escape(q2) ELSE c2
    ELSE LET t == At(s, k) IN
         IF ~escaped /\ t = BS
         THEN process_quotes_loop(s, k + 1, TRUE, in_quotes, current, quoted)
         ELSE IF escaped
         THEN IF t = "E"
              THEN IF in_quotes
                   THEN process_quotes_loop(s, k + 1, FALSE, FALSE,
                                            current \o escape(quoted), <<>>)
                   ELSE process_quotes_loop(s, k + 1, FALSE, in_quotes, current, quoted)
              ELSE IF t = "Q" /\ ~in_quotes
              THEN process_quotes_loop(s, k + 1, FALSE, TRUE, current, quoted)
              ELSE IF in_quotes
              THEN process_quotes_loop(s, k + 1, FALSE, in_quotes, current,
                                       quoted \o quoted_escape(t))
              ELSE process_quotes_loop(s, k + 1, FALSE, in_quotes,
                                       current \o <<BS, t>>, quoted)
         ELSE IF in_quotes
         THEN process_quotes_loop(s, k + 1, escaped, in_quotes, current, quoted \o <<t>>)
         ELSE process_quotes_loop(s, k + 1, escaped, in_quotes, current \o <<t>>, quoted)

process_quotes(s) == process_quotes_loop(s, 0, FALSE, FALSE, <<>>, <<>>)

-----------------------------------------------------------------------------
(* flags: the new verbosity and dialect and the exception raised, if any   *)

flags(text, vb, ver) ==
    LET off   == ver = VERSION1 /\ Contains(text, <<"-", "x">>) /\ vb
        on    == ~off /\ Contains(text, <<"x">>) /\ ~vb
        toV0  == Contains(text, <<"V", "0">>) /\ ver = VERSION1
        toV1  == ~toV0 /\ Contains(text, <<"V", "1">>) /\ ver = VERSION0
    IN [verbose |-> IF off THEN FALSE ELSE IF on THEN TRUE ELSE vb,
        version |-> IF toV0 THEN VERSION0 ELSE IF toV1 THEN VERSION1 ELSE ver,
        exc     |-> IF toV0 \/ toV1 THEN "GlobalRetryException"
                    ELSE IF off \/ on THEN "RetryException"
                    ELSE "None"]

-----------------------------------------------------------------------------
(* The call stack.  A frame holds the locals of one running call:          *)
(*   main_group:      current                                              *)
(*   subgroup:        verbose, index, start, current                       *)
(*   char_groups:     current, pos, found, sub_first, escaped, first, t    *)
(*   verbose_comment: current, escaped                                     *)
(* A machine value m is [frames, index, verbose, version, exc].            *)

Top(fs) == fs[Len(fs)]
Pop(fs) == SubSeq(fs, 1, Len(fs) - 1)

\* current.extend(out) in the running frame
Extend(fs, out) == [fs EXCEPT ![Len(fs)].current = @ \o out]

\* `return out` from the running frame to the normal() call of its caller,
\* which extends the caller's current with it
Return(fs, out) == Extend(Pop(fs), out)

\* reference without the returned backslash of an unrecognised escape
reference_escaped_bare(t, bin) ==
    IF t = "<" THEN _re_start_wb
    ELSE IF t = ">" THEN _re_end_wb
    ELSE IF t = "R" THEN _re_line_break(bin)
    ELSE IF t = "e" THEN _re_escape
    ELSE <<t>>

\* reference: what the token after a backslash adds to current
reference_escaped(t, bin) ==
    IF t = "<" THEN _re_start_wb
    ELSE IF t = ">" THEN _re_end_wb
    ELSE IF t = "R" THEN _re_line_break(bin)
    ELSE IF t = "e" THEN _re_escape
    ELSE <<BS, t>>

\* reference: the running frame read a backslash; at StopIteration the
\* backslash itself is returned
reference(m, bin) ==
    IF m.index > Len(string) - 1
    THEN [m EXCEPT !.frames = Extend(m.frames, <<BS>>)]
    ELSE [m EXCEPT !.frames = Extend(m.frames,
                                     reference_escaped(At(string, m.index), bin)),
                   !.index = m.index + 1]

\* subgroup, up to the start of its body loop: an inline flag group or a
\* comment is returned at once; otherwise a new frame is pushed, its current
\* already holding the opening token (the loop's first iteration)
subgroup(m) ==
    LET p  == m.index - 1
        v0 == m.version = VERSION0
        fl == get_flags(string, p, v0)
        cm == get_comments(string, p)
        sc == get_scoped_flags(string, p, v0)
    IN IF fl # NoMatch
       THEN LET r == flags(Slice(string, p + 2, fl - 1), m.verbose, m.version)
            IN IF r.exc # "None"
               THEN [m EXCEPT !.index = fl, !.verbose = r.verbose,
                              !.version = r.version, !.exc = r.exc]
               ELSE [m EXCEPT !.index = fl,
                              !.frames = Extend(m.frames, Slice(string, p, fl))]
       ELSE IF cm # NoMatch
       THEN [m EXCEPT !.index = cm, !.frames = Extend(m.frames, Slice(string, p, cm))]
       ELSE LET r == IF sc # NoMatch
                     THEN flags(Slice(string, p + 2, sc - 1), m.verbose, m.version)
                     ELSE [verbose |-> m.verbose, version |-> m.version, exc |-> "None"]
                i2 == IF sc # NoMatch THEN sc ELSE m.index
                start == IF sc # NoMatch THEN Slice(string, p, sc) ELSE <<"(">>
            IN IF r.exc = "GlobalRetryException"
               THEN [m EXCEPT !.index = i2, !.verbose = r.verbose,
                              !.version = r.version, !.exc = r.exc]
               ELSE [m EXCEPT !.index = i2, !.verbose = r.verbose,
                              !.frames = Append(m.frames,
                                  [fn |-> "subgroup", verbose |-> m.verbose,
                                   index |-> i2, start |-> start, current |-> start])]

\* char_groups treating an escaped token as reference does
char_groups_escaped_as_reference(t) ==
    IF t = "<" THEN _re_start_wb
    ELSE IF t = ">" THEN _re_end_wb
    ELSE IF t = "R" THEN _line_break
    ELSE IF t = "e" THEN _re_escape
    ELSE <<BS, t>>

\* char_groups: what the token after a backslash adds to current
char_groups_escaped(t) == IF t = "e" THEN _re_escape ELSE <<BS, t>>

\* a ] closing the class wherever it stands
first_set_closed_anywhere(f, t) == t = "]" /\ f.found = 1

\* t == "]" and found == 1 and (pos != first + 1): the first char set is
\* closed by a ] that is not its first member
first_set_closed(f, t) == t = "]" /\ f.found = 1 /\ f.pos # f.first + 1

\* one iteration of char_groups' loop on token t, read with the tokenizer
\* left at idx: the frame after it, the tokenizer's index, and whether the
\* loop was left by `break`
char_groups_token(f, t, idx, ver, bin) ==
    LET px == IF bin THEN NoMatch ELSE get_posix(string, idx - 1)
        g  == [f EXCEPT !.t = t]
        r  ==
          IF ~f.escaped /\ t = BS
          THEN [frame |-> [g EXCEPT !.escaped = TRUE], index |-> idx, brk |-> FALSE]
          ELSE IF f.escaped
          THEN [frame |-> [g EXCEPT !.escaped = FALSE,
                                    !.current = @ \o char_groups_escaped(t)],
                index |-> idx, brk |-> FALSE]
          ELSE IF t = "[" /\ f.found = 0
          THEN [frame |-> [g EXCEPT !.found = 1, !.first = f.pos,
                                    !.current = @ \o <<t>>],
                index |-> idx, brk |-> FALSE]
          ELSE IF t = "[" /\ f.found # 0 /\ ver = V1
          THEN IF px # NoMatch
               THEN [frame |-> [g EXCEPT !.current = @ \o Slice(string, idx - 1, px),
                                         !.pos = px - 2],
                     index |-> px, brk |-> FALSE]
               ELSE [frame |-> [g EXCEPT !.found = @ + 1, !.sub_first = f.pos,
                                         !.current = @ \o <<t>>],
                     index |-> idx, brk |-> FALSE]
          ELSE IF t = "["
          THEN IF px # NoMatch
               THEN [frame |-> [g EXCEPT !.current = @ \o Slice(string, idx - 1, px),
                                         !.pos = px - 2],
                     index |-> px, brk |-> FALSE]
               ELSE [frame |-> [g EXCEPT !.current = @ \o <<t>>],
                     index |-> idx, brk |-> FALSE]
          ELSE IF t = "^" /\ f.found = 1 /\ f.pos = f.first + 1
          THEN [frame |-> [g EXCEPT !.current = @ \o <<t>>, !.first = f.pos],
                index |-> idx, brk |-> FALSE]
          ELSE IF ver = V1 /\ t = "^" /\ f.found > 1 /\ f.pos = f.sub_first + 1
          THEN [frame |-> [g EXCEPT !.current = @ \o <<t>>, !.sub_first = f.pos],
                index |-> idx, brk |-> FALSE]
          ELSE IF first_set_closed(f, t)
          THEN [frame |-> [g EXCEPT !.current = @ \o <<t>>, !.found = 0],
                index |-> idx, brk |-> TRUE]
          ELSE IF ver = V1 /\ t = "]" /\ f.found > 1 /\ f.pos # f.sub_first + 1
          THEN [frame |-> [g EXCEPT !.found = @ - 1, !.current = @ \o <<t>>],
                index |-> idx, brk |-> FALSE]
          ELSE [frame |-> [g EXCEPT !.current = @ \o <<t>>],
                index |-> idx, brk |-> FALSE]
    IN IF r.brk THEN r ELSE [r EXCEPT !.frame.pos = @ + 1]

\* char_groups' locals when it is called with t = "[" and the tokenizer at
\* idx, after the loop's first iteration
char_groups_enter(idx, ver, bin) ==
    char_groups_token([fn |-> "char_groups", current |-> <<>>, pos |-> idx - 1,
                       found |-> 0, sub_first |-> "None", escaped |-> FALSE,
                       first |-> "None", t |-> "["],
                      "[", idx, ver, bin).frame

\* what char_groups returns when its loop has ended
char_groups_result(f) == IF f.escaped THEN f.current \o <<f.t>> ELSE f.current

\* one iteration of verbose_comment's loop on token t (t is no newline)
verbose_comment_token(f, t) ==
    IF ~f.escaped /\ t = BS
    THEN [f EXCEPT !.escaped = TRUE, !.current = @ \o <<t>>]
    ELSE IF f.escaped
    THEN [f EXCEPT !.escaped = FALSE,
                   !.current = @ \o (IF t \in _new_refs THEN <<BS, t>> ELSE <<t>>)]
    ELSE [f EXCEPT !.current = @ \o <<t>>]

\* verbose_comment's locals when it is called with t = "#", after the loop's
\* first iteration
verbose_comment_enter ==
    verbose_comment_token([fn |-> "verbose_comment", current |-> <<>>,
                           escaped |-> FALSE], "#")

\* normal: token t was read by the running frame's loop (m.index is past it)
normal(m, t, bin) ==
    IF t = BS THEN reference(m, bin)
    ELSE IF t = "(" THEN subgroup(m)
    ELSE IF m.verbose /\ t = "#"
    THEN [m EXCEPT !.frames = Append(m.frames, verbose_comment_enter)]
    ELSE IF t = "["
    THEN [m EXCEPT !.frames = Append(m.frames,
                                     char_groups_enter(m.index, m.version, bin))]
    ELSE [m EXCEPT !.frames = Extend(m.frames, <<t>>)]

-----------------------------------------------------------------------------
(* The machine *)

Machine == [frames |-> frames, index |-> index, verbose |-> verbose,
            version |-> version, exc |-> exc]

Becomes(m) ==
    /\ frames' = m.frames
    /\ index' = m.index
    /\ verbose' = m.verbose
    /\ version' = m.version
    /\ exc' = m.exc

main_group_frame == [fn |-> "main_group", current |-> <<>>]

Running(fn) ==
    /\ pc = "scan"
    /\ exc = "None"
    /\ frames # <<>>
    /\ Top(frames).fn = fn

Raising(fn) ==
    /\ pc = "scan"
    /\ exc # "None"
    /\ frames # <<>>
    /\ Top(frames).fn = fn

\* next(i) raises StopIteration
StopIteration == index > Len(string) - 1

\* apply's loop without its clause for GlobalRetryException
ApplyCatchesLocalOnly == {"RetryException"}

\* the exceptions apply's loop has an except clause for
ApplyCatches == {"RetryException", "GlobalRetryException"}

\* subgroup's body loop without its clause for RetryException
SubgroupCatchesNothing == {}

\* the exceptions subgroup's body loop has an except clause for, besides
\* StopIteration
SubgroupCatches == {"RetryException"}

\* history: a loop is re-entered with the machine m
Reenter(m) ==
    /\ reentries' = reentries \cup {m}
    /\ recurred' = (recurred \/ m \in reentries)

\* apply, up to its first call of main_group
Apply ==
    /\ pc = "init"
    /\ pc' = "scan"
    /\ verbose' = re_verbose
    /\ version' = IF re_version # 0 THEN re_version ELSE DEFAULT_VERSION
    /\ string' = process_quotes(search)
    /\ index' = 0
    /\ frames' = <<main_group_frame>>
    /\ UNCHANGED <<replace_vars, args, exc, new_pattern, reentries, recurred>>

\* one iteration of main_group's loop; at StopIteration main_group returns
\* and so does apply
MainGroup ==
    /\ Running("main_group")
    /\ IF StopIteration
       THEN /\ pc' = "done"
            /\ new_pattern' = Top(frames).current
            /\ frames' = <<>>
            /\ UNCHANGED <<index, verbose, version, exc>>
       ELSE /\ Becomes(normal([Machine EXCEPT !.index = index + 1],
                              At(string, index), binary))
            /\ UNCHANGED <<pc, new_pattern>>
    /\ UNCHANGED <<replace_vars, args, string, reentries, recurred>>

\* one iteration of the body loop of subgroup; at ")" or StopIteration the
\* group's verbosity is restored and subgroup returns
Subgroup ==
    /\ Running("subgroup")
    /\ LET f == Top(frames) IN
       IF StopIteration
       THEN Becomes([Machine EXCEPT !.frames = Return(frames, f.current),
                                    !.verbose = f.verbose])
       ELSE IF At(string, index) = ")"
       THEN Becomes([Machine EXCEPT !.frames = Return(frames, f.current \o <<")">>),
                                    !.index = index + 1,
                                    !.verbose = f.verbose])
       ELSE Becomes(normal([Machine EXCEPT !.index = index + 1],
                           At(string, index), binary))
    /\ UNCHANGED <<replace_vars, args, string, pc, new_pattern, reentries, recurred>>

\* one iteration of char_groups' loop
CharGroups ==
    /\ Running("char_groups")
    /\ LET f == Top(frames) IN
       IF StopIteration
       THEN Becomes([Machine EXCEPT !.frames = Return(frames, char_groups_result(f))])
       ELSE LET r == char_groups_token(f, At(string, index), index + 1, version, binary)
            IN IF r.brk
               THEN Becomes([Machine EXCEPT
                               !.frames = Return(frames, char_groups_result(r.frame)),
                               !.index = r.index])
               ELSE Becomes([Machine EXCEPT
                               !.frames = [frames EXCEPT ![Len(frames)] = r.frame],
                               !.index = r.index])
    /\ UNCHANGED <<replace_vars, args, string, pc, new_pattern, reentries, recurred>>

\* one iteration of verbose_comment's loop
VerboseComment ==
    /\ Running("verbose_comment")
    /\ LET f == Top(frames) IN
       IF StopIteration
       THEN Becomes([Machine EXCEPT !.frames = Return(frames, f.current)])
       ELSE IF At(string, index) = NL
       THEN Becomes([Machine EXCEPT !.frames = Return(frames, f.current \o <<NL>>),
                                    !.index = index + 1])
       ELSE Becomes([Machine EXCEPT
                       !.frames = [frames EXCEPT ![Len(frames)] =
                                      verbose_comment_token(f, At(string, index))],
                       !.index = index + 1])
    /\ UNCHANGED <<replace_vars, args, string, pc, new_pattern, reentries, recurred>>

\* subgroup's except clause rewinding the tokenizer but keeping the output
\* of the attempt it ends
SubgroupExceptKeepsOutput ==
    /\ Raising("subgroup")
    /\ LET m == [Machine EXCEPT !.index = Top(frames).index, !.exc = "None"]
       IN IF exc \in SubgroupCatches
          THEN Becomes(m) /\ Reenter(m)
          ELSE Becomes([Machine EXCEPT !.frames = Pop(frames)])
               /\ UNCHANGED <<reentries, recurred>>
    /\ UNCHANGED <<replace_vars, args, string, pc, new_pattern>>

\* an exception reaches the body loop of subgroup: a RetryException rewinds
\* the tokenizer to the start of the body and runs the loop again, any other
\* leaves subgroup
SubgroupExcept ==
    /\ Raising("subgroup")
    /\ LET f == Top(frames)
           m == [Machine EXCEPT
                   !.frames = [frames EXCEPT ![Len(frames)].current = f.start],
                   !.index = f.index,
                   !.exc = "None"]
       IN IF exc \in SubgroupCatches
          THEN Becomes(m) /\ Reenter(m)
          ELSE Becomes([Machine EXCEPT !.frames = Pop(frames)])
               /\ UNCHANGED <<reentries, recurred>>
    /\ UNCHANGED <<replace_vars, args, string, pc, new_pattern>>

\* an exception reaches main_group, which has no except clause for it
MainGroupExcept ==
    /\ Raising("main_group")
    /\ frames' = Pop(frames)
    /\ UNCHANGED <<replace_vars, args, string, pc, new_pattern, index, verbose, version, exc,
                   reentries, recurred>>

\* apply's loop setting self.verbose anew from re_verbose at every retry
ApplyExceptResetVerbose ==
    /\ pc = "scan"
    /\ exc # "None"
    /\ frames = <<>>
    /\ LET m == [Machine EXCEPT !.frames = <<main_group_frame>>, !.index = 0,
                                !.exc = "None", !.verbose = re_verbose]
       IN IF exc \in ApplyCatches
          THEN Becomes(m) /\ Reenter(m) /\ pc' = pc
          ELSE /\ pc' = "raised"
               /\ UNCHANGED <<index, frames, exc, verbose, version, reentries, recurred>>
    /\ UNCHANGED <<replace_vars, args, string, new_pattern>>

\* an exception reaches the loop of apply: the tokenizer is rewound to 0 and
\* main_group is called again
ApplyExcept ==
    /\ pc = "scan"
    /\ exc # "None"
    /\ frames = <<>>
    /\ LET m == [Machine EXCEPT !.frames = <<main_group_frame>>, !.index = 0,
                                !.exc = "None"]
       IN IF exc \in ApplyCatches
          THEN Becomes(m) /\ Reenter(m) /\ pc' = pc
          ELSE /\ pc' = "raised"
               /\ UNCHANGED <<index, frames, exc, verbose, version, reentries, recurred>>
    /\ UNCHANGED <<replace_vars, args, string, new_pattern>>

Next ==
    \/ Apply
    \/ MainGroup
    \/ Subgroup
    \/ CharGroups
    \/ VerboseComment
    \/ SubgroupExcept
    \/ MainGroupExcept
    \/ ApplyExcept

-----------------------------------------------------------------------------
(* The replace side: ReplaceTokens, ReplaceTemplate and                    *)
(* ReplaceTemplateExpander.  One run is ReplaceTemplate(pattern, template) *)
(* followed by ReplaceTemplateExpander(match, template).expand().  The     *)
(* call stack below the constructor (parse_template, span_case,            *)
(* single_case) is the sequence `frames`; a frame is                       *)
(* [fn, case, called], where called says that the body of the frame's     *)
(* loop has made a call that has not returned yet.  The templates are of   *)
(* the non-format kind (use_format = False).                               *)

_UPPER == 0
_LOWER == 1

\* Python's None where the code holds a case or no case
None == -1

\* None in the list of literals
NoLiteral == <<"None">>

ascii_lowercase ==
    <<"a", "b", "c", "d", "e", "f", "g", "h", "i", "j", "k", "l", "m",
      "n", "o", "p", "q", "r", "s", "t", "u", "v", "w", "x", "y", "z">>

ascii_uppercase ==
    <<"A", "B", "C", "D", "E", "F", "G", "H", "I", "J", "K", "L", "M",
      "N", "O", "P", "Q", "R", "S", "T", "U", "V", "W", "X", "Y", "Z">>

_ascii_letters ==
    {ascii_lowercase[k] : k \in 1..26} \cup {ascii_uppercase[k] : k \in 1..26}

DIGITS == {"0", "1", "2", "3", "4", "5", "6", "7", "8", "9"}

OCTAL == {"0", "1", "2", "3", "4", "5", "6", "7"}

HEX == DIGITS \cup {"a", "b", "c", "d", "e", "f", "A", "B", "C", "D", "E", "F"}

\* \w under the ASCII flag
WORD == _ascii_letters \cup DIGITS \cup {"_"}

\* c.upper() and c.lower() of one character
upper(c) ==
    IF \E k \in 1..26 : ascii_lowercase[k] = c
    THEN ascii_uppercase[CHOOSE k \in 1..26 : ascii_lowercase[k] = c]
    ELSE c

lower(c) ==
    IF \E k \in 1..26 : ascii_uppercase[k] = c
    THEN ascii_lowercase[CHOOSE k \in 1..26 : ascii_uppercase[k] = c]
    ELSE c

\* convert_case on a string of ASCII characters, where the binary and the
\* text branch agree: lower for _LOWER, upper for anything else
convert_case(value, case) ==
    [k \in 1..Len(value) |->
        IF case = _LOWER THEN lower(value[k]) ELSE upper(value[k])]

\* the end of the longest run of characters of S in s from q on
RECURSIVE Run(_, _, _)
Run(s, q, S) == IF q < Len(s) /\ At(s, q) \in S THEN Run(s, q + 1, S) ELSE q

\* s[a:b] is b - a characters of S
AllIn(s, a, b, S) == b <= Len(s) /\ \A k \in a..(b - 1) : At(s, k) \in S

\* [a-zA-Z]+[a-zA-Z\d_]*|0+|0*[1-9][0-9]? on a run n of word characters
GroupName(n) ==
    /\ n # <<>>
    /\ \/ n[1] \in _ascii_letters
       \/ \A k \in 1..Len(n) : n[k] = "0"
       \/ LET z == Run(n, 0, {"0"})
          IN z < Len(n) /\ Len(n) - z <= 2 /\ AllIn(n, z, Len(n), DIGITS)

_long_replace_refs == {"u", "U", "g", "x", "N"}

\* _replace_group_ref.match(s, q) and _binary_replace_group_ref.match(s, q):
\* the end of the match, or NoMatch
_replace_ref(s, q, bin) ==
    IF q >= Len(s) THEN NoMatch
    ELSE LET c == At(s, q) IN
    IF c = BS THEN q + 1
    ELSE IF AllIn(s, q, q + 3, OCTAL) THEN q + 3
    ELSE IF c \in DIGITS \ {"0"}
    THEN IF AllIn(s, q + 1, q + 2, DIGITS) THEN q + 2 ELSE q + 1
    ELSE IF c \in {"c", "C", "l", "L", "E", "a", "b", "f", "r", "t", "n", "v"}
    THEN q + 1
    ELSE IF c = "g"
    THEN LET e == Run(s, q + 2, WORD)
         IN IF /\ AllIn(s, q + 1, q + 2, {"<"})
               /\ AllIn(s, e, e + 1, {">"})
               /\ GroupName(Slice(s, q + 2, e))
            THEN e + 1
            ELSE q + 1
    ELSE IF c = "x"
    THEN IF AllIn(s, q + 1, q + 3, HEX) THEN q + 3 ELSE q + 1
    ELSE IF ~bin /\ c = "U"
    THEN IF AllIn(s, q + 1, q + 9, HEX) THEN q + 9 ELSE q + 1
    ELSE IF ~bin /\ c = "u"
    THEN IF AllIn(s, q + 1, q + 5, HEX) THEN q + 5 ELSE q + 1
    ELSE IF ~bin /\ c = "N"
    THEN LET e == Run(s, q + 2, WORD \cup {" "})
         IN IF /\ AllIn(s, q + 1, q + 2, {"{"})
               /\ e > q + 2
               /\ AllIn(s, e, e + 1, {"}"})
            THEN e + 1
            ELSE q + 1
    ELSE NoMatch

\* ReplaceTokens.iternext at index idx <= max_index: the token, or the
\* exception of a long reference without its argument
iternext(s, idx, bin) ==
    LET e == _replace_ref(s, idx + 1, bin)
    IN IF At(s, idx) = BS /\ e # NoMatch
       THEN LET ref == Slice(s, idx + 1, e)
            IN IF Len(ref) = 1 /\ ref[1] \in _long_replace_refs
               THEN [raises |-> "SyntaxError", token |-> <<>>]
               ELSE [raises |-> "None", token |-> <<BS>> \o ref]
       ELSE [raises |-> "None", token |-> <<At(s, idx)>>]

\* _format_replace_ref.match(s, q) and _binary_format_replace_ref.match(s, q):
\* the end of the match, or NoMatch, and the group that matched: 1 the
\* backslash, 3 the g reference, 4 the curly bracket, 2 any other reference
_format_replace_ref(s, q, bin) ==
    IF q >= Len(s) THEN [end |-> NoMatch, group |-> 0]
    ELSE LET c == At(s, q) IN
    IF c = BS THEN [end |-> q + 1, group |-> 1]
    ELSE IF c \in {"c", "C", "l", "L", "E", "a", "b", "f", "r", "t", "n", "v"}
    THEN [end |-> q + 1, group |-> 2]
    ELSE IF c = "x" \/ (~bin /\ c \in {"U", "u", "N"})
    THEN [end |-> _replace_ref(s, q, bin), group |-> 2]
    ELSE IF c \in OCTAL
    THEN [end |-> IF Run(s, q, OCTAL) > q + 3 THEN q + 3 ELSE Run(s, q, OCTAL),
          group |-> 2]
    ELSE IF c = "g" THEN [end |-> _replace_ref(s, q, bin), group |-> 3]
    ELSE IF c = "{" THEN [end |-> q + 1, group |-> 4]
    ELSE [end |-> NoMatch, group |-> 0]

\* the first index from q on where s holds c, or Len(s)
RECURSIVE Find(_, _, _)
Find(s, q, c) == IF q < Len(s) /\ At(s, q) # c THEN Find(s, q + 1, c) ELSE q

\* _format_replace_group.match(s, q): the end of the match, or NoMatch, and
\* the group that matched: 1 a doubled bracket, 2 a field
_format_replace_group(s, q) ==
    IF Slice(s, q, q + 2) \in {<<"{", "{">>, <<"}", "}">>}
    THEN [end |-> q + 2, group |-> 1]
    ELSE LET e == Run(s, q + 1, WORD)
             name == Slice(s, q + 1, e)
             r == Find(s, e + 1, "]")
             close == IF e < Len(s) /\ At(s, e) = "[" /\ r > e + 1 /\ r < Len(s)
                      THEN r + 1
                      ELSE e
         IN IF /\ At(s, q) = "{"
               /\ name = <<>> \/ GroupName(name)
               /\ close < Len(s)
               /\ At(s, close) = "}"
            THEN [end |-> close + 1, group |-> 2]
            ELSE [end |-> NoMatch, group |-> 0]

\* ReplaceTokens.iternext with use_format at index idx <= max_index: the
\* token and the index behind it, or the exception raised
format_iternext(s, idx, bin) ==
    IF At(s, idx) = BS
    THEN LET m == _format_replace_ref(s, idx + 1, bin)
             ref == Slice(s, idx + 1, m.end)
         IN IF m.end = NoMatch
            THEN [raises |-> "None", token |-> <<BS>>, index |-> idx + 1]
            ELSE IF Len(ref) = 1 /\ ref[1] \in _long_replace_refs
            THEN [raises |-> "SyntaxError", token |-> <<>>, index |-> idx]
            ELSE IF m.group = 4
            THEN [raises |-> "None", token |-> <<BS, BS>>, index |-> idx + 1]
            ELSE IF m.group = 3
            THEN [raises |-> "None", token |-> <<BS, BS>> \o ref,
                  index |-> idx + 1 + Len(ref)]
            ELSE [raises |-> "None", token |-> <<BS>> \o ref,
                  index |-> idx + 1 + Len(ref)]
    ELSE IF At(s, idx) \in {"{", "}"}
    THEN LET g == _format_replace_group(s, idx)
         IN IF g.end = NoMatch
            THEN [raises |-> "ValueError", token |-> <<>>, index |-> idx]
            ELSE IF g.group = 2
            THEN [raises |-> "None", token |-> Slice(s, idx, g.end),
                  index |-> g.end]
            ELSE [raises |-> "None", token |-> <<At(s, idx)>>, index |-> idx + 2]
    ELSE [raises |-> "None", token |-> <<At(s, idx)>>, index |-> idx + 1]

\* next(i): the token, the tokenizer's index behind it and the exception
next(s, idx, bin, fmt) ==
    IF fmt THEN format_iternext(s, idx, bin)
    ELSE [raises |-> iternext(s, idx, bin).raises,
          token |-> iternext(s, idx, bin).token,
          index |-> idx + Len(iternext(s, idx, bin).token)]

\* the branch of the if/elif chains of parse_template, span_case and
\* single_case a token t of more than one character takes
Kind(t) ==
    LET c == Tail(t) IN
    IF c[1] \in DIGITS /\ Len(c) = 3 THEN "octal"
    ELSE IF c[1] \in DIGITS \/ c[1] = "g" THEN "group"
    ELSE IF c \in {<<"l">>, <<"L">>, <<"c">>, <<"C">>, <<"E">>} THEN c[1]
    ELSE IF c[1] \in {"N", "u", "U", "x"} THEN "code"
    ELSE "other"

\* the same for a token t of a format template
FormatKind(t) ==
    LET c == Tail(t) IN
    IF t[1] = "{" THEN "field"
    ELSE IF c[1] \in DIGITS THEN "octal"
    ELSE IF c \in {<<"l">>, <<"L">>, <<"c">>, <<"C">>, <<"E">>} THEN c[1]
    ELSE IF c[1] \in {"N", "u", "U", "x"} THEN "code"
    ELSE "other"

TokenKind(t, fmt) == IF fmt THEN FormatKind(t) ELSE Kind(t)

\* the ReplaceTemplate being built, its tokenizer and the call stack
ReplaceMachine ==
    [pc |-> pc, string |-> string, index |-> index, frames |-> frames,
     exc |-> exc, end_found |-> end_found, group_slots |-> group_slots,
     literal_slots |-> literal_slots, result |-> result,
     span_stack |-> span_stack, single_stack |-> single_stack,
     slot |-> slot, groups |-> groups, literals |-> literals,
     expanded |-> expanded, use_format |-> use_format, manual |-> manual,
     auto |-> auto, auto_index |-> auto_index]

\* the fields of the template and its tokenizer become those of m
MachineBecomes(m) ==
    /\ pc' = m.pc
    /\ string' = m.string
    /\ index' = m.index
    /\ frames' = m.frames
    /\ exc' = m.exc
    /\ end_found' = m.end_found
    /\ group_slots' = m.group_slots
    /\ literal_slots' = m.literal_slots
    /\ result' = m.result
    /\ span_stack' = m.span_stack
    /\ single_stack' = m.single_stack
    /\ slot' = m.slot
    /\ groups' = m.groups
    /\ literals' = m.literals
    /\ expanded' = m.expanded
    /\ manual' = m.manual
    /\ auto' = m.auto
    /\ auto_index' = m.auto_index

ReplaceBecomes(m) ==
    /\ MachineBecomes(m)
    /\ UNCHANGED <<args, template, match, use_format, verbose, version, new_pattern,
                   reentries, recurred, objects, call, expanders>>

\* an exception leaves the constructor or expand
Raise(m, e) == [m EXCEPT !.pc = "raised", !.exc = e, !.frames = <<>>]

\* get_single_stack with the last directive pushed as its value
get_single_stack_last(stack) ==
    IF stack = <<>> THEN None ELSE stack[Len(stack)]

\* the value of get_single_stack: the stack is popped until it is empty and
\* the last value popped, the first pushed, is returned; the callers below
\* empty self.single_stack
get_single_stack(stack) ==
    IF stack = <<>> THEN None ELSE stack[1]

\* the literal text gathered in self.result becomes a literal slot
close_literal(m) ==
    IF Len(m.result) > 1
    THEN [m EXCEPT !.literal_slots = Append(@, Flatten(m.result)),
                   !.result = <<<<>>>>,
                   !.slot = @ + 1]
    ELSE m

\* handle_group asking for the first capture of the group
handle_group_first_capture(m, t) ==
    LET n == close_literal(m)
    IN [n EXCEPT !.literal_slots = Append(@, t),
                 !.single_stack = <<>>,
                 !.group_slots =
                     Append(@, <<n.slot,
                                 <<IF m.span_stack # <<>> THEN Top(m.span_stack)
                                   ELSE None,
                                   get_single_stack(m.single_stack),
                                   0>>>>),
                 !.slot = @ + 1]

handle_group(m, t) ==
    LET n == close_literal(m)
    IN [n EXCEPT !.literal_slots = Append(@, t),
                 !.single_stack = <<>>,
                 !.group_slots =
                     Append(@, <<n.slot,
                                 <<IF m.span_stack # <<>> THEN Top(m.span_stack)
                                   ELSE None,
                                   get_single_stack(m.single_stack),
                                   -1>>>>),
                 !.slot = @ + 1]

\* the digits of "%x" % v, "%o" % v and "%d" % v
hexdigits ==
    <<"0", "1", "2", "3", "4", "5", "6", "7", "8", "9", "a", "b", "c", "d",
      "e", "f">>

\* text.strip() of a string whose only white space is blanks
RECURSIVE strip(_)
strip(s) ==
    IF s # <<>> /\ s[1] = " " THEN strip(Tail(s))
    ELSE IF s # <<>> /\ s[Len(s)] = " " THEN strip(SubSeq(s, 1, Len(s) - 1))
    ELSE s

\* the value of the digit c in int(text, base), None for any other character
digit_value(c) ==
    IF \E v \in 0..15 : hexdigits[v + 1] = lower(c)
    THEN CHOOSE v \in 0..15 : hexdigits[v + 1] = lower(c)
    ELSE None

\* the number the digits ds are in the given base
RECURSIVE digits_value(_, _)
digits_value(ds, base) ==
    IF ds = <<>> THEN 0
    ELSE base * digits_value(SubSeq(ds, 1, Len(ds) - 1), base)
         + digit_value(ds[Len(ds)])

\* the letter of the prefix int(text, base) accepts in front of the digits
base_letter(base) ==
    CASE base = 2 -> "b" [] base = 8 -> "o" [] base = 16 -> "x" [] OTHER -> ""

\* the digits of body behind the prefix of the base, if it has one
base_digits(body, base) ==
    IF Len(body) >= 2 /\ body[1] = "0" /\ lower(body[2]) = base_letter(base)
    THEN SubSeq(body, 3, Len(body))
    ELSE body

\* int(s, base) of a stripped string of digits, letters and signs: blanks
\* around it, a sign, the prefix of the base, one or more digits of the base
signed_int(s, base) ==
    LET body == IF s # <<>> /\ s[1] \in {"-", "+"} THEN Tail(s) ELSE s
        ds == base_digits(body, base)
    IN IF /\ ds # <<>>
          /\ \A k \in 1..Len(ds) :
                 digit_value(ds[k]) # None /\ digit_value(ds[k]) < base
       THEN [raises |-> FALSE,
             value |-> IF s[1] = "-" THEN 0 - digits_value(ds, base)
                       ELSE digits_value(ds, base)]
       ELSE [raises |-> TRUE, value |-> 0]

\* int(text, base): the value, or ValueError raised
int_base(text, base) == signed_int(strip(text), base)

\* t[1:-1].strip() of a field token
field_text(t) == strip(Slice(t, 1, Len(t) - 1))

\* compat.int2str(n) of n >= 0
RECURSIVE int2str(_)
int2str(n) ==
    IF n < 10 THEN <<hexdigits[n + 1]>>
    ELSE int2str(n \div 10) \o <<hexdigits[(n % 10) + 1]>>

\* handle_format_group: the base the prefix of a subscript selects
prefix_base(prefix) ==
    IF Slice(prefix, 0, 1) = <<"0">>
    THEN CASE prefix[Len(prefix)] = "b" -> 2
           [] prefix[Len(prefix)] = "o" -> 8
           [] prefix[Len(prefix)] = "x" -> 16
           [] OTHER -> 10
    ELSE 10

\* handle_format_group with the prefix looked for at the front of the
\* subscript, a minus sign or none
capture_base_unsigned(capture) == prefix_base(Slice(capture, 0, 2))

capture_base(capture) ==
    prefix_base(IF Slice(capture, 0, 1) = <<"-">> THEN Slice(capture, 1, 3)
                ELSE Slice(capture, 0, 2))

\* handle_format_group: the capture a field asks for, -1 without a
\* subscript, or ValueError raised
format_capture(field) ==
    IF Find(field, 0, "[") < Len(field)
    THEN int_base(Slice(field, Find(field, 0, "[") + 1, Len(field) - 1),
                  capture_base(Slice(field, Find(field, 0, "[") + 1,
                                     Len(field) - 1)))
    ELSE [raises |-> FALSE, value |-> 0 - 1]

\* handle_format_group: the name or index of a field, its subscript cut off
format_text(field) == Slice(field, 0, Find(field, 0, "["))

\* handle_format_group with fields of either kind accepted in one template
format_address_mixed(m, text) ==
    IF text = <<>>
    THEN [raises |-> "None", text |-> int2str(m.auto_index),
          m |-> [m EXCEPT !.auto = ~m.manual, !.auto_index = @ + 1]]
    ELSE [raises |-> "None", text |-> text,
          m |-> [m EXCEPT !.manual = ~m.auto]]

\* handle_format_group: automatic or manual addressing of the field text
format_address(m, text) ==
    IF text = <<>>
    THEN IF m.auto \/ (~m.manual /\ ~m.auto)
         THEN [raises |-> "None", text |-> int2str(m.auto_index),
               m |-> [m EXCEPT !.auto = TRUE, !.auto_index = @ + 1]]
         ELSE [raises |->
                   "ValueError: Cannot switch to auto format during manual format!",
               text |-> text, m |-> m]
    ELSE IF ~m.manual /\ ~m.auto
    THEN [raises |-> "None", text |-> text, m |-> [m EXCEPT !.manual = TRUE]]
    ELSE IF ~m.manual
    THEN [raises |->
              "ValueError: Cannot switch to manual format during auto format!",
          text |-> text, m |-> m]
    ELSE [raises |-> "None", text |-> text, m |-> m]

\* handle_format_group: the slots of the field
format_slot(m, n, text, capture) ==
    [n EXCEPT !.literal_slots = @ \o <<<<BS, "g", "<">>, text, <<">">>>>,
              !.single_stack = <<>>,
              !.group_slots =
                  Append(@, <<n.slot,
                              <<IF m.span_stack # <<>> THEN Top(m.span_stack)
                                ELSE None,
                                get_single_stack(m.single_stack),
                                capture>>>>),
              !.slot = @ + 1]

format_addressed(a, capture) ==
    IF a.raises # "None" THEN Raise(a.m, a.raises)
    ELSE format_slot(a.m, close_literal(a.m), a.text, capture)

handle_format_group(m, field) ==
    IF format_capture(field).raises
    THEN Raise(m, "ValueError: Capture index must be an integer!")
    ELSE format_addressed(format_address(m, format_text(field)),
                          format_capture(field).value)

\* self.single_case(i, case) and self.span_case(i, case) called from the
\* running frame: the callee's first statement pushes the case
call_single_case(m, case) ==
    [m EXCEPT !.frames = Append([m.frames EXCEPT ![Len(m.frames)].called = TRUE],
                                [fn |-> "single_case", case |-> case,
                                 called |-> FALSE]),
              !.single_stack = Append(@, case)]

call_span_case(m, case) ==
    [m EXCEPT !.frames = Append([m.frames EXCEPT ![Len(m.frames)].called = TRUE],
                                [fn |-> "span_case", case |-> case,
                                 called |-> FALSE]),
              !.span_stack = Append(@, case)]

\* the characters "%02x" % v of v in 0..255
hex2(v) == <<hexdigits[(v \div 16) + 1], hexdigits[(v % 16) + 1]>>

\* int(c) of one digit
digit(c) == CHOOSE v \in 0..9 : hexdigits[v + 1] = c

\* int(c, 8) of one to three octal digits
octal(c) == digits_value(c, 8)

\* "%03o" % v of v in 0..511
oct3(v) ==
    <<hexdigits[(v \div 64) + 1], hexdigits[((v \div 8) % 8) + 1],
      hexdigits[(v % 8) + 1]>>

\* an octal escape outside a case directive: re-emitted with three digits
\* up to 0o377, as \u01xx above it, which a binary template refuses
parse_octal(m, t, bin) ==
    LET value == octal(Tail(t)) IN
    IF value > 255
    THEN IF bin THEN Raise(m, "ValueError")
         ELSE [m EXCEPT !.result =
                  Append(@, <<BS, "u", "0", "1">> \o hex2(value - 256))]
    ELSE [m EXCEPT !.result = Append(@, <<BS>> \o oct3(value))]

\* ord(chr(v).upper()) and ord(chr(v).lower()) of a text template, for the
\* v of one byte and what they convert to; None where the conversion gives
\* two characters (the upper case of the sharp s), of which ord raises
\* TypeError
str_upper_ord(v) ==
    CASE v \in 97..122 -> v - 32
      [] v \in 224..254 /\ v # 247 -> v - 32
      [] v = 223 -> None
      [] v = 181 -> 924
      [] v = 255 -> 376
      [] v = 956 -> 924
      [] v \in (0..255) \cup {376, 924} /\ v \notin 97..122 /\ v \notin 223..255
         /\ v # 181 -> v
      [] v = 247 -> v

str_lower_ord(v) ==
    CASE v \in 65..90 -> v + 32
      [] v \in 192..222 /\ v # 215 -> v + 32
      [] v = 376 -> 255
      [] v = 924 -> 956
      [] v \in (0..255) \cup {956} /\ v \notin 65..90 /\ v \notin 192..222 -> v
      [] v = 215 -> v

\* ord(self.convert_case(compat.uchr(v), case)): a binary template converts
\* the ASCII letters only; None for what is no single character
convert_case_ord(v, case, bin) ==
    IF v = None THEN None
    ELSE IF bin
    THEN IF case = _LOWER THEN (IF v \in 65..90 THEN v + 32 ELSE v)
         ELSE (IF v \in 97..122 THEN v - 32 ELSE v)
    ELSE IF case = _LOWER THEN str_lower_ord(v) ELSE str_upper_ord(v)

\* "%04x" % v and "%02x" % v
hex4(v) ==
    <<hexdigits[(v \div 4096) + 1], hexdigits[((v \div 256) % 16) + 1]>>
    \o hex2(v % 256)

hex2_or_more(v) ==
    IF v < 256 THEN hex2(v) ELSE <<hexdigits[(v \div 256) + 1]>> \o hex2(v % 256)

\* ('\\%03o' if value <= 0xFF else '\\u%04x') % value
octal_or_u(value) ==
    IF value <= 255 THEN <<BS>> \o oct3(value) ELSE <<BS, "u">> \o hex4(value)

\* int(t[2:], 16) of a token \xhh or \uhhhh
hex_value(t) == digits_value(SubSeq(t, 3, Len(t)), 16)

\* the text the converted value v of an escape becomes in self.result, or
\* the TypeError of ord on what is no single character
converted_escape(n, v, text) ==
    IF v = None THEN Raise(n, "TypeError")
    ELSE [n EXCEPT !.result = Append(@, text)]

\* span_case on an octal escape t in a span of the given case: a binary
\* template calls the converted string where a single-char directive is
\* pending
span_case_octal(n, case, t, bin) ==
    LET value == octal(Tail(t))
        text == convert_case_ord(value, case, bin)
        single == get_single_stack(n.single_stack)
        cleared == [n EXCEPT !.single_stack = <<>>]
        cased == IF single # None THEN convert_case_ord(text, single, bin) ELSE text
    IN IF bin
       THEN IF value > 255 THEN Raise(n, "ValueError")
            ELSE IF single # None THEN Raise(cleared, "TypeError")
            ELSE converted_escape(cleared, cased, <<BS>> \o oct3(cased))
       ELSE converted_escape(cleared, cased, octal_or_u(cased))

\* span_case on a hex escape t
span_case_hex(n, case, t, bin) ==
    LET text == convert_case_ord(hex_value(t), case, bin)
        single == get_single_stack(n.single_stack)
        cleared == [n EXCEPT !.single_stack = <<>>]
        cased == IF single # None THEN convert_case_ord(text, single, bin) ELSE text
    IN converted_escape(cleared, cased, <<BS, "x">> \o hex2_or_more(cased))

\* single_case on an octal escape t
single_case_octal(n, t, bin) ==
    LET value == octal(Tail(t))
        cleared == [n EXCEPT !.single_stack = <<>>]
        cased == convert_case_ord(value, get_single_stack(n.single_stack), bin)
    IN IF bin
       THEN IF value > 255 THEN Raise(n, "ValueError")
            ELSE converted_escape(cleared, cased, <<BS>> \o oct3(cased))
       ELSE converted_escape(cleared, cased, octal_or_u(cased))

\* single_case on a hex escape t
single_case_hex(n, t, bin) ==
    LET cleared == [n EXCEPT !.single_stack = <<>>]
        cased == convert_case_ord(hex_value(t),
                                  get_single_stack(n.single_stack), bin)
    IN converted_escape(cleared, cased, <<BS, "x">> \o hex2_or_more(cased))

\* chr(v) as a character of the model: the letter for the code of an ASCII
\* letter, the code itself behind "chr" for any other character
uchr(v) ==
    IF v \in 97..122 THEN ascii_lowercase[v - 96]
    ELSE IF v \in 65..90 THEN ascii_uppercase[v - 64]
    ELSE "chr" \o ToString(v)

\* the replacement list of regex._compile_replacement_helper for a template
\* holding literal characters, letter escapes, "\\" and group references by
\* number: a group's number for a reference, a string for each maximal run
\* of anything else
escapes ==
    [c \in {"a", "b", "f", "r", "t", "n", "v"} |->
        CASE c = "n" -> NL
          [] c = "t" -> "\t"
          [] c = "r" -> "\r"
          [] c = "f" -> "\f"
          [] c = "a" -> "BEL"
          [] c = "b" -> "BSP"
          [] c = "v" -> "VT"]

\* int(name) of a group reference \N, \NN or \g<N>
RECURSIVE int(_)
int(n) == IF n = <<>> THEN 0 ELSE 10 * int(SubSeq(n, 1, Len(n) - 1)) + digit(n[Len(n)])

\* pattern.groupindex: the one named group of the pattern is group 1
groupindex(name) == IF name = <<"w">> THEN 1 ELSE None

group_number(t) ==
    IF t[2] = "g"
    THEN IF AllIn(t, 3, Len(t) - 1, DIGITS)
         THEN int(SubSeq(t, 4, Len(t) - 1))
         ELSE groupindex(SubSeq(t, 4, Len(t) - 1))
    ELSE int(Tail(t))

RECURSIVE replacement(_, _, _)

\* the escape sequence t read at q of the template
replacement_escape(s, q, lit, t) ==
    CASE Len(t) = 1 -> replacement(s, q + 1, Append(lit, BS))
      [] Len(t) > 1 /\ Kind(t) = "group" ->
           (IF lit = <<>> THEN <<>> ELSE <<[literal |-> lit]>>)
           \o <<[group |-> group_number(t)]>>
           \o replacement(s, q + Len(t), <<>>)
      [] Len(t) > 1 /\ Kind(t) = "other" /\ t[2] = BS ->
           replacement(s, q + 2, Append(lit, BS))
      [] Len(t) > 1 /\ Kind(t) = "other" /\ t[2] \in DOMAIN escapes ->
           replacement(s, q + 2, Append(lit, escapes[t[2]]))
      [] Len(t) > 1 /\ Kind(t) = "octal" ->
           replacement(s, q + Len(t), Append(lit, uchr(octal(Tail(t)))))
      [] Len(t) > 1 /\ Kind(t) = "code" /\ t[2] \in {"x", "u"} ->
           replacement(s, q + Len(t), Append(lit, uchr(hex_value(t))))

replacement(s, q, lit) ==
    IF q >= Len(s) THEN IF lit = <<>> THEN <<>> ELSE <<[literal |-> lit]>>
    ELSE IF At(s, q) # BS THEN replacement(s, q + 1, Append(lit, At(s, q)))
    ELSE replacement_escape(s, q, lit, iternext(s, q, FALSE).token)

_compile_replacement_helper(tpl) == replacement(tpl, 0, <<>>)

IsGroup(part) == "group" \in DOMAIN part

\* the groups of a replacement list as (position, group number), from its
\* k-th part on
RECURSIVE group_pairs(_, _)
group_pairs(replacements, k) ==
    IF k > Len(replacements) THEN <<>>
    ELSE (IF IsGroup(replacements[k])
          THEN <<<<k - 1, replacements[k].group>>>>
          ELSE <<>>)
         \o group_pairs(replacements, k + 1)

\* the groups, and the literals with None at a group's position
template_parts(replacements) ==
    [groups |-> group_pairs(replacements, 1),
     literals |-> [k \in 1..Len(replacements) |->
                      IF IsGroup(replacements[k]) THEN NoLiteral
                      ELSE replacements[k].literal]]

\* regex_parse_template
regex_parse_template(tpl) == template_parts(_compile_replacement_helper(tpl))

\* self._template
_template(m) == Flatten(m.literal_slots)

\* pattern.groups of the pattern the templates are compiled for: group 1,
\* named w, and group 2
pattern_groups == 2

\* regex._compile_replacement_helper refuses a reference to a group the
\* pattern has not got
invalid_group(replacements) ==
    \E k \in 1..Len(replacements) :
        IsGroup(replacements[k]) /\ replacements[k].group > pattern_groups

\* the end of parse_template, after the loop over the tokens
parse_template_end(m) ==
    LET n == close_literal(m)
        r == regex_parse_template(_template(n))
    IN IF invalid_group(_compile_replacement_helper(_template(n)))
       THEN Raise(n, "error")
       ELSE [n EXCEPT !.groups = r.groups, !.literals = r.literals,
                      !.pc = "compiled", !.frames = <<>>]

\* the body of parse_template's loop for the token t, n being the template
\* with its tokenizer behind t
parse_template_token(n, bin, t) ==
    IF Len(t) > 1
    THEN CASE TokenKind(t, n.use_format) = "field" ->
                handle_format_group(n, field_text(t))
           [] TokenKind(t, n.use_format) = "octal" -> parse_octal(n, t, bin)
           [] TokenKind(t, n.use_format) = "group" -> handle_group(n, t)
           [] TokenKind(t, n.use_format) = "l" -> call_single_case(n, _LOWER)
           [] TokenKind(t, n.use_format) = "L" -> call_span_case(n, _LOWER)
           [] TokenKind(t, n.use_format) = "c" -> call_single_case(n, _UPPER)
           [] TokenKind(t, n.use_format) = "C" -> call_span_case(n, _UPPER)
           [] TokenKind(t, n.use_format) = "E" -> n
           [] TokenKind(t, n.use_format) \in {"code", "other"} ->
                [n EXCEPT !.result = Append(@, t)]
    ELSE [n EXCEPT !.result = Append(@, t)]

\* t = next(i), tk being what the tokenizer gives: it raises, or the loop's
\* body runs on the token
parse_template_next(m, bin, tk) ==
    IF tk.raises # "None" THEN Raise(m, tk.raises)
    ELSE parse_template_token([m EXCEPT !.index = tk.index], bin, tk.token)

\* one iteration of the loop of parse_template
parse_template(m, bin) ==
    IF m.index > Len(m.string) - 1 THEN parse_template_end(m)
    ELSE parse_template_next(m, bin, next(m.string, m.index, bin, m.use_format))

\* span_case leaves its loop: the span is popped and span_case returns
span_case_return(m) ==
    [m EXCEPT !.span_stack = Pop(@), !.frames = Pop(@)]

\* the end of the body of span_case's loop
span_case_after(m) ==
    IF m.pc = "raised" THEN m
    ELSE IF m.end_found THEN span_case_return([m EXCEPT !.end_found = FALSE])
    ELSE m

\* the body of span_case's loop for the token t up to a call or its end, n
\* being the template with its tokenizer behind t and case the span's case
span_case_token(n, case, t, bin) ==
    IF t = <<BS, "E">> THEN span_case_return(n)
    ELSE IF Len(t) > 1
    THEN CASE TokenKind(t, n.use_format) = "field" ->
                span_case_after(handle_format_group(n, field_text(t)))
           [] TokenKind(t, n.use_format) = "octal" ->
                span_case_after(span_case_octal(n, case, t, bin))
           [] TokenKind(t, n.use_format) = "code" /\ t[2] = "x" ->
                span_case_after(span_case_hex(n, case, t, bin))
           [] TokenKind(t, n.use_format) = "group" ->
                span_case_after(handle_group(n, t))
           [] TokenKind(t, n.use_format) = "c" -> call_single_case(n, _UPPER)
           [] TokenKind(t, n.use_format) = "l" -> call_single_case(n, _LOWER)
           [] TokenKind(t, n.use_format) = "C" -> call_span_case(n, _UPPER)
           [] TokenKind(t, n.use_format) = "L" -> call_span_case(n, _LOWER)
           [] TokenKind(t, n.use_format) = "other" ->
                span_case_after([n EXCEPT !.single_stack = <<>>,
                                          !.result = Append(@, t)])
    ELSE IF n.single_stack # <<>>
    THEN span_case_after(
             [n EXCEPT !.single_stack = <<>>,
                       !.result =
                           Append(@, convert_case(
                                         convert_case(t, case),
                                         get_single_stack(n.single_stack)))])
    ELSE span_case_after([n EXCEPT !.result = Append(@, convert_case(t, case))])

span_case_next(m, tk, bin) ==
    IF tk.raises # "None" THEN Raise(m, tk.raises)
    ELSE span_case_token([m EXCEPT !.index = tk.index], Top(m.frames).case,
                         tk.token, bin)

\* one iteration of the loop of span_case, in two halves when its body
\* makes a call: up to the call, and from the call's return on
span_case(m, bin) ==
    IF Top(m.frames).called
    THEN span_case_after([m EXCEPT !.frames[Len(m.frames)].called = FALSE])
    ELSE IF m.index > Len(m.string) - 1 THEN span_case_return(m)
    ELSE span_case_next(m, next(m.string, m.index, bin, m.use_format), bin)

\* single_case returns
single_case_return(m) == [m EXCEPT !.frames = Pop(@)]

\* the body of single_case for the token t up to a call or its end, n being
\* the template with its tokenizer behind t
single_case_token(n, t, bin) ==
    IF Len(t) > 1
    THEN CASE TokenKind(t, n.use_format) = "field" ->
                single_case_return(handle_format_group(n, field_text(t)))
           [] TokenKind(t, n.use_format) = "octal" ->
                single_case_return(single_case_octal(n, t, bin))
           [] TokenKind(t, n.use_format) = "code" /\ t[2] = "x" ->
                single_case_return(single_case_hex(n, t, bin))
           [] TokenKind(t, n.use_format) = "group" ->
                single_case_return(handle_group(n, t))
           [] TokenKind(t, n.use_format) = "c" -> call_single_case(n, _UPPER)
           [] TokenKind(t, n.use_format) = "l" -> call_single_case(n, _LOWER)
           [] TokenKind(t, n.use_format) = "C" -> call_span_case(n, _UPPER)
           [] TokenKind(t, n.use_format) = "L" -> call_span_case(n, _LOWER)
           [] TokenKind(t, n.use_format) = "E" ->
                single_case_return([n EXCEPT !.end_found = TRUE])
           [] TokenKind(t, n.use_format) = "other" ->
                single_case_return([n EXCEPT !.single_stack = <<>>,
                                             !.result = Append(@, t)])
    ELSE single_case_return(
             [n EXCEPT !.single_stack = <<>>,
                       !.result =
                           Append(@, convert_case(
                                         t, get_single_stack(n.single_stack)))])

single_case_next(m, tk, bin) ==
    IF tk.raises # "None" THEN Raise(m, tk.raises)
    ELSE single_case_token([m EXCEPT !.index = tk.index], tk.token, bin)

\* single_case: the one token it reads, or the return of the call it made
single_case(m, bin) ==
    IF Top(m.frames).called THEN single_case_return(m)
    ELSE IF m.index > Len(m.string) - 1 THEN single_case_return(m)
    ELSE single_case_next(m, next(m.string, m.index, bin, m.use_format), bin)

\* get_group_index and get_group_attributes: the first entry for a position
get_group_index(gs, x) ==
    IF \E k \in 1..Len(gs) : gs[k][1] = x
    THEN gs[CHOOSE k \in 1..Len(gs) :
                gs[k][1] = x /\ \A j \in 1..(k - 1) : gs[j][1] # x][2]
    ELSE None

get_group_attributes(slots, x) ==
    IF \E k \in 1..Len(slots) : slots[k][1] = x
    THEN slots[CHOOSE k \in 1..Len(slots) :
                   slots[k][1] = x /\ \A j \in 1..(k - 1) : slots[j][1] # x][2]
    ELSE <<None, None, -1>>

\* captures[capture] raises IndexError
out_of_range(captures, capture) ==
    IF capture >= 0 THEN capture >= Len(captures) ELSE 0 - capture > Len(captures)

\* captures[-1] whatever the capture asked for
captured_last(captures, capture) == captures[Len(captures)]

\* captures[capture]
captured(captures, capture) ==
    IF capture >= 0 THEN captures[capture + 1]
    ELSE captures[Len(captures) + capture + 1]

\* expand with the single directive's case applied before the span's
expand_group_single_first(m, mt, x) ==
    LET g_index == get_group_index(m.groups, x)
        attrs == get_group_attributes(m.group_slots, x)
        l == captured(mt[g_index], attrs[3])
        single == IF attrs[2] # None
                  THEN convert_case(Slice(l, 0, 1), attrs[2]) \o Slice(l, 1, Len(l))
                  ELSE l
    IN IF attrs[1] # None THEN convert_case(single, attrs[1]) ELSE single

\* what expand appends for the group at position x of the literals: the
\* last capture of the group, in the span's case, its first character in
\* the single directive's case
expand_group(m, mt, x) ==
    LET g_index == get_group_index(m.groups, x)
        attrs == get_group_attributes(m.group_slots, x)
        l == captured(mt[g_index], attrs[3])
        spanned == IF attrs[1] # None THEN convert_case(l, attrs[1]) ELSE l
    IN IF attrs[2] # None
       THEN convert_case(Slice(spanned, 0, 1), attrs[2])
            \o Slice(spanned, 1, Len(spanned))
       ELSE spanned

\* expand giving empty text for a capture the match has not got
expand_lenient(m, mt) ==
    [m EXCEPT !.pc = "expanded",
              !.expanded = Flatten([k \in 1..Len(m.literals) |->
                                  IF m.literals[k] # NoLiteral
                                  THEN m.literals[k]
                                  ELSE IF out_of_range(
                                              mt[get_group_index(m.groups, k - 1)],
                                              get_group_attributes(m.group_slots,
                                                                   k - 1)[3])
                                       THEN <<>>
                                       ELSE expand_group(m, mt, k - 1)])]

\* ReplaceTemplateExpander.expand: IndexError for a capture the match has
\* not got
expand(m, mt) ==
    LET missing == {x \in 0..(Len(m.literals) - 1) :
                       /\ m.literals[x + 1] = NoLiteral
                       /\ out_of_range(mt[get_group_index(m.groups, x)],
                                       get_group_attributes(m.group_slots, x)[3])}
    IN IF missing # {}
       THEN Raise(m, "IndexError")
       ELSE [m EXCEPT !.pc = "expanded",
                      !.expanded = Flatten([k \in 1..Len(m.literals) |->
                                          IF m.literals[k] = NoLiteral
                                          THEN expand_group(m, mt, k - 1)
                                          ELSE m.literals[k]])]

\* ReplaceTemplate(pattern, tpl) up to the first token: __init__ and the
\* head of parse_template
ReplaceTemplate(tpl, fmt) ==
    [pc |-> "parse", string |-> tpl, index |-> 0,
     frames |-> <<[fn |-> "parse_template", case |-> None, called |-> FALSE]>>,
     exc |-> "None", end_found |-> FALSE, group_slots |-> <<>>,
     literal_slots |-> <<>>, result |-> <<<<>>>>, span_stack |-> <<>>,
     single_stack |-> <<>>, slot |-> 0, groups |-> <<>>, literals |-> <<>>,
     expanded |-> <<>>, use_format |-> fmt, manual |-> FALSE, auto |-> FALSE,
     auto_index |-> 0]

\* the next step of the constructor: an iteration of the running frame
step(m, bin) ==
    CASE Top(m.frames).fn = "parse_template" -> parse_template(m, bin)
      [] Top(m.frames).fn = "span_case" -> span_case(m, bin)
      [] Top(m.frames).fn = "single_case" -> single_case(m, bin)

\* the constructor run from m on to its end and, if it returns, expand
RECURSIVE run(_, _, _)
run(m, bin, mt) ==
    IF m.pc = "parse" THEN run(step(m, bin), bin, mt)
    ELSE IF m.pc = "compiled" THEN expand(m, mt)
    ELSE m

Compile ==
    /\ pc = "template"
    /\ ReplaceBecomes(ReplaceTemplate(template, use_format))

ParseTemplate ==
    /\ pc = "parse"
    /\ Top(frames).fn = "parse_template"
    /\ ReplaceBecomes(step(ReplaceMachine, binary))

SpanCase ==
    /\ pc = "parse"
    /\ Top(frames).fn = "span_case"
    /\ ReplaceBecomes(step(ReplaceMachine, binary))

SingleCase ==
    /\ pc = "parse"
    /\ Top(frames).fn = "single_case"
    /\ ReplaceBecomes(step(ReplaceMachine, binary))

ExpanderExpand ==
    /\ pc = "compiled"
    /\ ReplaceBecomes(expand(ReplaceMachine, match))

ReplaceNext ==
    \/ Compile
    \/ ParseTemplate
    \/ SpanCase
    \/ SingleCase
    \/ ExpanderExpand

NoCall == [fn |-> "None", given |-> <<>>, raises |-> "None", returns |-> None,
           events |-> <<>>]

\* no call of a module-level function, no expander
NoCalls ==
    /\ objects = {}
    /\ call = NoCall
    /\ expanders = <<>>

\* no ReplaceTemplate: the search side runs alone
NoReplace ==
    /\ template = <<>>
    /\ use_format = FALSE
    /\ match = <<>>
    /\ end_found = FALSE
    /\ group_slots = <<>>
    /\ literal_slots = <<>>
    /\ result = <<>>
    /\ span_stack = <<>>
    /\ single_stack = <<>>
    /\ slot = 0
    /\ groups = <<>>
    /\ literals = <<>>
    /\ expanded = <<>>
    /\ manual = FALSE
    /\ auto = FALSE
    /\ auto_index = 0
    /\ NoCalls

-----------------------------------------------------------------------------
(* The patterns checked: every concatenation of at most n fragments of a    *)
(* family, under the family's initial flags.  Only a quoted span reaches   *)
(* escape, so the library default varies in the families that quote.       *)

Words(F, n) == UNION {[1..k -> F] : k \in 0..n}

Patterns(F, n) == {Flatten(w) : w \in Words(F, n)}

\* inline flag groups, parentheses, verbose comments
MaxFlagFrags == 3

FlagFragments ==
    {<<"(">>, <<")">>, <<"(", "?", "x", ")">>, <<"(", "?", "-", "x", ")">>,
     <<"(", "?", "V", "1", ")">>, <<"(", "?", "V", "0", ")">>,
     <<"(", "?", "x", ":">>, <<"#">>, <<NL>>, <<BS, "<">>}

\* backslash runs in front of Q, E and a shorthand
MaxEscChars == 4

EscChars == {<<BS>>, <<"Q">>, <<"E">>, <<"<">>, <<"a">>}

\* the shorthand escapes in text and binary patterns, in groups, comments
\* and classes
MaxShorthands == 3

ShorthandFragments ==
    {<<BS, "<">>, <<BS, ">">>, <<BS, "R">>, <<BS, "e">>, <<BS, "k">>,
     <<"(">>, <<"(", "?", "#">>, <<")">>, <<"[">>}

\* character classes
MaxClassChars == 4

ClassChars == {<<"[">>, <<"]">>, <<"^">>, <<BS>>, <<"<">>}

\* a quoted span in front of, inside or behind another construct
MaxQuoted == 2

QuotedChars == {<<"a">>, <<"<">>, <<"(">>, <<BS>>}

QuotedBefore ==
    {<<>>, <<"a">>, <<"[">>, <<"(", "?", "#">>, <<"#">>, <<"(">>}

QuotedAfter ==
    {<<>>, <<BS, "E">>, <<BS, "E", "]">>, <<BS, "E", ")">>, <<BS, "E", NL>>,
     <<BS, "E", BS, "<">>}

QuotedPatterns ==
    {pre \o <<BS, "Q">> \o s \o post :
        pre \in QuotedBefore, s \in Patterns(QuotedChars, MaxQuoted),
        post \in QuotedAfter}

\* a \Q inside an open quoted span, closed or left open
MaxNested == 1

NestedChars == {<<"a">>, <<"(">>}

NestedPatterns ==
    {pre \o <<BS, "Q">> \o b \o <<BS, "Q">> \o c \o post :
        pre \in {<<>>, <<"a">>}, b \in Patterns(NestedChars, MaxNested),
        c \in Patterns(NestedChars, MaxNested),
        post \in {<<>>, <<BS, "E">>, <<BS, "E", "a">>}}

\* a run of backslashes in front of one of the letters of the extended
\* escapes, outside a quoted span and inside one
MaxRun == 5

Backslashes(n) == [i \in 1..n |-> BS]

ParityLetters == {"Q", "E", "<", ">", "R", "e"}

ParityBefore == {<<>>, <<"a">>, <<BS, "Q">>, <<BS, "Q", "a">>}

ParityAfter == {<<>>, <<"a">>, <<BS, "E", "a">>}

ParityPatterns ==
    {pre \o Backslashes(n) \o <<c>> \o post :
        pre \in ParityBefore, n \in 0..MaxRun, c \in ParityLetters,
        post \in ParityAfter}

\* a class whose first member is ], behind the bracket or behind a leading
\* ^, with shorthands, # and ^ in it and a shorthand behind it
MaxClassBody == 2

ClassBodyChars == {<<BS, "<">>, <<BS, "R">>, <<"#">>, <<"^">>}

BracketFirstPatterns ==
    {<<"[">> \o lead \o <<"]">> \o body \o <<"]">> \o post :
        lead \in {<<>>, <<"^">>}, body \in Patterns(ClassBodyChars, MaxClassBody),
        post \in {<<>>, <<BS, "<">>}}

\* a class with brackets, ^ and a POSIX class in it, and a shorthand at
\* the end of the pattern
MaxDepthChars == 5

DepthChars == {<<"[">>, <<"]">>, <<"^">>, <<"[", ":", "a", ":", "]">>}

DepthPatterns ==
    {<<"[">> \o w \o <<BS, "<">> : w \in Patterns(DepthChars, MaxDepthChars)}

\* a class with \e, another shorthand and a letter in it, and \e behind it
MaxEscapeBody == 2

EscapeBodyChars == {<<BS, "e">>, <<BS, "<">>, <<"e">>}

EscapeClassPatterns ==
    {<<"[">> \o body \o <<"]">> \o post :
        body \in Patterns(EscapeBodyChars, MaxEscapeBody),
        post \in {<<>>, <<BS, "e">>}}

\* a # comment with escapes, a lone backslash and a letter in it, running
\* to the end of the pattern or to a newline with or without a shorthand
\* behind it
MaxCommentBody == 2

CommentChars ==
    {<<BS, "<">>, <<BS, "R">>, <<BS, "Q">>, <<BS, "E">>, <<BS, "k">>, <<BS>>,
     <<"a">>}

CommentPatterns ==
    {<<"#">> \o body \o post :
        body \in Patterns(CommentChars, MaxCommentBody),
        post \in {<<>>, <<NL>>, <<NL, BS, "<">>}}

\* a group, plain or opened by the scoped flag x, with flag groups for
\* verbose mode and the dialect, a letter and a comment line in its body,
\* left open at the end of the pattern or closed with a # and a shorthand
\* behind it
MaxGroupBody == 2

GroupBodyChars ==
    {<<"(", "?", "x", ")">>, <<"(", "?", "V", "1", ")">>, <<"a">>,
     <<"#", BS, "<", NL>>}

GroupOpens == {<<"(">>, <<"(", "?", "x", ":">>}

VerbosityGroupPatterns ==
    {open \o body \o post :
        open \in GroupOpens, body \in Patterns(GroupBodyChars, MaxGroupBody),
        post \in {<<>>, <<")", "#", BS, "<">>}}

\* comment lines in front of, inside and behind the group that holds (?x)
MaxRestartLines == 1

RestartLine == <<"#", BS, "<", NL>>

RestartText == Patterns({RestartLine}, MaxRestartLines)

VerboseFlag == <<"(", "?", "x", ")">>

RestartPatterns ==
    {pre \o br[1] \o mid \o VerboseFlag \o post \o br[2] \o tail :
        pre \in RestartText, mid \in RestartText, post \in RestartText,
        tail \in RestartText, br \in {<<<<>>, <<>>>>, <<<<"(">>, <<")">>>>}}

\* flag groups where they are no flag groups: behind a backslash, in a
\* class, in a quoted span, in an inline comment, in a # comment
MaxShieldedFlags == 2

ShieldedFlags ==
    {VerboseFlag, <<"(", "?", "-", "x", ")">>, <<"(", "?", "V", "1", ")">>,
     <<"(", "?", "V", "0", ")">>}

Shields ==
    {<<<<BS>>, <<>>>>, <<<<"[">>, <<"]">>>>, <<<<BS, "Q">>, <<BS, "E">>>>,
     <<<<"(", "?", "#">>, <<")">>>>, <<<<"#">>, <<NL>>>>}

ShieldedPatterns ==
    {sh[1] \o f \o sh[2] \o post :
        sh \in Shields, f \in Patterns(ShieldedFlags, MaxShieldedFlags),
        post \in {<<>>, <<"#", BS, "<">>}}

Init ==
    /\ \/ /\ search \in Patterns(FlagFragments, MaxFlagFrags)
          /\ binary = FALSE
          /\ re_verbose \in BOOLEAN
          /\ re_version \in {0, VERSION1}
          /\ special_only = FALSE
       \/ /\ search \in Patterns(EscChars, MaxEscChars)
          /\ binary = FALSE
          /\ re_verbose = FALSE
          /\ re_version = VERSION0
          /\ special_only \in BOOLEAN
       \/ /\ search \in Patterns(ShorthandFragments, MaxShorthands)
          /\ binary \in BOOLEAN
          /\ re_verbose = FALSE
          /\ re_version = 0
          /\ special_only = FALSE
       \/ /\ search \in Patterns(ClassChars, MaxClassChars)
          /\ binary = FALSE
          /\ re_verbose = FALSE
          /\ re_version \in {VERSION0, VERSION1}
          /\ special_only = FALSE
       \/ /\ search \in QuotedPatterns
          /\ binary = FALSE
          /\ re_verbose \in BOOLEAN
          /\ re_version = 0
          /\ special_only \in BOOLEAN
       \/ /\ search \in NestedPatterns
          /\ binary = FALSE
          /\ re_verbose = FALSE
          /\ re_version = 0
          /\ special_only \in BOOLEAN
       \/ /\ search \in ParityPatterns
          /\ binary = FALSE
          /\ re_verbose = FALSE
          /\ re_version = 0
          /\ special_only \in BOOLEAN
       \/ /\ search \in BracketFirstPatterns
          /\ binary = FALSE
          /\ re_verbose \in BOOLEAN
          /\ re_version \in {VERSION0, VERSION1}
          /\ special_only = FALSE
       \/ /\ search \in DepthPatterns
          /\ binary = FALSE
          /\ re_verbose = FALSE
          /\ re_version \in {VERSION0, VERSION1}
          /\ special_only = FALSE
       \/ /\ search \in EscapeClassPatterns
          /\ binary = FALSE
          /\ re_verbose = FALSE
          /\ re_version \in {VERSION0, VERSION1}
          /\ special_only = FALSE
       \/ /\ search \in CommentPatterns
          /\ binary = FALSE
          /\ re_verbose = TRUE
          /\ re_version = VERSION0
          /\ special_only \in BOOLEAN
       \/ /\ search \in VerbosityGroupPatterns
          /\ binary = FALSE
          /\ re_verbose \in BOOLEAN
          /\ re_version = VERSION0
          /\ special_only = FALSE
       \/ /\ search \in RestartPatterns
          /\ binary = FALSE
          /\ re_verbose = FALSE
          /\ re_version = 0
          /\ special_only = FALSE
       \/ /\ search \in ShieldedPatterns
          /\ binary = FALSE
          /\ re_verbose \in BOOLEAN
          /\ re_version \in {0, VERSION1}
          /\ special_only = FALSE
    /\ pc = "init"
    /\ string = <<>>
    /\ index = 0
    /\ verbose = FALSE
    /\ version = 0
    /\ frames = <<>>
    /\ exc = "None"
    /\ new_pattern = <<>>
    /\ reentries = {}
    /\ recurred = FALSE
    /\ applied = <<>>
    /\ NoReplace

Spec == Init /\ [][Next]_vars

-----------------------------------------------------------------------------
(* The same pattern given to two RegexSearchTemplate objects, one after    *)
(* the other: the second is constructed with the dialect the first one's   *)
(* apply ended in as its re_version.  The patterns are brackets, a piece   *)
(* that a class may or may not hold, a flag group naming a dialect, and a  *)
(* # line.                                                                 *)

MaxDialectBrackets == 4

DialectBrackets == Patterns({<<"[">>, <<"]">>}, MaxDialectBrackets)

DialectInner ==
    {<<>>, <<BS, "<", "]">>, <<"(", "?", "x", ")", "]">>,
     <<"(", "(", "?", "x", ")", "#", BS, "<", NL, ")">>}

DialectSwitch == {<<"(", "?", "V", "1", ")">>, <<"(", "?", "V", "0", ")">>}

DialectAfter == {<<>>, <<"#", BS, "<">>}

DialectPatterns ==
    {br \o inner \o sw \o post :
        br \in DialectBrackets, inner \in DialectInner, sw \in DialectSwitch,
        post \in DialectAfter}

\* what is kept of an object whose apply has returned
Applied ==
    [re_version |-> re_version, version |-> version, new_pattern |-> new_pattern,
     switched |-> version # (IF re_version # 0 THEN re_version ELSE DEFAULT_VERSION)]

\* RegexSearchTemplate(search, re_verbose, version): a second object for the
\* same pattern, its re_version the dialect the first ended in
ApplyAgain ==
    /\ pc = "done"
    /\ applied = <<>>
    /\ applied' = <<Applied>>
    /\ re_version' = version
    /\ pc' = "init"
    /\ string' = <<>>
    /\ index' = 0
    /\ verbose' = FALSE
    /\ version' = 0
    /\ frames' = <<>>
    /\ exc' = "None"
    /\ new_pattern' = <<>>
    /\ reentries' = {}
    /\ recurred' = FALSE
    /\ UNCHANGED <<replace_vars, search, binary, re_verbose, special_only>>

DialectNext ==
    \/ Next
    \/ ApplyAgain

DialectInit ==
    /\ search \in DialectPatterns
    /\ binary = FALSE
    /\ re_verbose \in BOOLEAN
    /\ re_version \in {0, VERSION1}
    /\ special_only = FALSE
    /\ pc = "init"
    /\ string = <<>>
    /\ index = 0
    /\ verbose = FALSE
    /\ version = 0
    /\ frames = <<>>
    /\ exc = "None"
    /\ new_pattern = <<>>
    /\ reentries = {}
    /\ recurred = FALSE
    /\ applied = <<>>
    /\ NoReplace

DialectSpec == DialectInit /\ [][DialectNext]_vars

-----------------------------------------------------------------------------------------------------------------------------------------------------
(* The templates checked: every concatenation of at most MaxTokens         *)
(* fragments (a lower-case and an upper-case literal, a reference to group *)
(* 1, the four case directives and \E); the shorter ones as binary         *)
(* templates too; and the text templates behind a single-char directive    *)
(* that is directly followed by \E.  They are expanded with a match whose  *)
(* group 1 captured text of mixed case.                                    *)

MaxTokens == 4

MaxBinaryTokens == 2

MaxBehind == 4

ReplaceFragments ==
    {<<"a">>, <<"B">>, <<BS, "1">>, <<BS, "c">>, <<BS, "l">>, <<BS, "C">>,
     <<BS, "L">>, <<BS, "E">>}

Templates == Patterns(ReplaceFragments, MaxTokens)

BinaryTemplates == Patterns(ReplaceFragments, MaxBinaryTokens)

SingleThenEnd == {<<BS, "c", BS, "E">>}

TemplatesBehindEnd ==
    {pre \o s : pre \in SingleThenEnd, s \in Patterns(ReplaceFragments, MaxBehind)}

\* match.captures(g) for the whole match and for group 1
Matches == {[g \in 0..pattern_groups |-> <<<<"x", "Y">>>>]}

\* format templates: automatic and manual fields, subscripts, case
\* directives
MaxFormatTokens == 3

FormatFragments ==
    {<<"{", "}">>, <<"{", "[", "1", "]", "}">>, <<"{", "1", "}">>,
     <<"{", "w", "[", "0", "]", "}">>, <<"{", "1", "[", "-", "2", "]", "}">>,
     <<"{", "1", "[", "z", "]", "}">>, <<"a">>, <<BS, "c">>, <<BS, "L">>,
     <<BS, "E">>}

FormatTemplates == Patterns(FormatFragments, MaxFormatTokens)

\* the matches the format templates are expanded on: group 1 took part
\* in the match not at all, once or twice
FormatMatches ==
    {[g \in 0..pattern_groups |->
         CASE g = 0 -> <<<<"a", "b", "x", "Y", "c", "D">>>>
           [] g = 1 -> w
           [] g = 2 -> <<<<"c", "D">>>>] :
        w \in {<<>>, <<<<"x", "Y">>>>, <<<<"a", "b">>, <<"x", "Y">>>>}}

\* the subscripts of a field
MaxSubscript == 4

SubscriptChars == {"0", "1", "8", "-", "b", "o", "x", "z"}

SubscriptTemplates ==
    {<<"{", "1", "[">> \o sub \o <<"]", "}">> :
        sub \in UNION {[1..k -> SubscriptChars] : k \in 0..MaxSubscript}}

\* the match the subscripts select from
SubscriptMatches ==
    {[g \in 0..pattern_groups |->
         IF g = 1 THEN <<<<"a", "b">>, <<"x", "Y">>>>
         ELSE <<<<"a", "b", "x", "Y">>>>]}

\* references without a subscript in a plain template: by number, by
\* number in \g<...> and by name, with a single-char directive
MaxPlainRefs == 2

PlainRefFragments ==
    {<<BS, "1">>, <<BS, "g", "<", "1", ">">>, <<BS, "g", "<", "w", ">">>,
     <<BS, "c">>}

PlainRefTemplates == Patterns(PlainRefFragments, MaxPlainRefs)

\* octal and hex escapes of an ASCII letter, of a letter of Latin-1 and of
\* the sharp s, with single-char and span directives, compiled as text and
\* as binary templates
MaxOctalTokens == 3

OctalFragments ==
    {<<BS, "1", "0", "1">>, <<BS, "3", "5", "1">>, <<BS, "3", "3", "7">>,
     <<BS, "x", "6", "1">>, <<BS, "c">>, <<BS, "L">>, <<BS, "C">>,
     <<BS, "E">>}

OctalTemplates == Patterns(OctalFragments, MaxOctalTokens)

\* no search pattern: the replace side runs alone
NoSearch ==
    /\ search = <<>>
    /\ applied = <<>>
    /\ re_verbose = FALSE
    /\ re_version = 0
    /\ special_only = FALSE
    /\ verbose = FALSE
    /\ version = 0
    /\ new_pattern = <<>>
    /\ reentries = {}
    /\ recurred = FALSE

ReplaceInit ==
    /\ \/ /\ template \in Templates \cup TemplatesBehindEnd
          /\ binary = FALSE
          /\ use_format = FALSE
          /\ match \in Matches
       \/ /\ template \in BinaryTemplates
          /\ binary = TRUE
          /\ use_format = FALSE
          /\ match \in Matches
       \/ /\ template \in FormatTemplates
          /\ binary = FALSE
          /\ use_format = TRUE
          /\ match \in FormatMatches
       \/ /\ template \in SubscriptTemplates
          /\ binary = FALSE
          /\ use_format = TRUE
          /\ match \in SubscriptMatches
       \/ /\ template \in PlainRefTemplates
          /\ binary = FALSE
          /\ use_format = FALSE
          /\ match \in FormatMatches
       \/ /\ template \in OctalTemplates
          /\ binary \in BOOLEAN
          /\ use_format = FALSE
          /\ match \in Matches
    /\ NoSearch
    /\ pc = "template"
    /\ string = <<>>
    /\ index = 0
    /\ frames = <<>>
    /\ exc = "None"
    /\ end_found = FALSE
    /\ group_slots = <<>>
    /\ literal_slots = <<>>
    /\ result = <<>>
    /\ span_stack = <<>>
    /\ single_stack = <<>>
    /\ slot = 0
    /\ groups = <<>>
    /\ literals = <<>>
    /\ expanded = <<>>
    /\ manual = FALSE
    /\ auto = FALSE
    /\ auto_index = 0
    /\ NoCalls

ReplaceSpec == ReplaceInit /\ [][ReplaceNext]_vars

-----------------------------------------------------------------------------
(* The module-level functions on compiled replacements: compile_replace,   *)
(* sub, subn, subf, subfn, expand, expandf.  A value carries its Python    *)
(* type in the field `type`: a compiled pattern ("Pattern", with its hash), *)
(* a string ("str"), a match ("Match", with the pattern that made it and   *)
(* its captures), None ("NoneType"), a ReplaceTemplate (with the plan its  *)
(* constructor built), a Replace (func is the ReplaceTemplate its partial  *)
(* is bound to), or something else ("int").  A call ends in a record: the  *)
(* exception it raises or "None", the value it returns, and the events on  *)
(* its way, in order ("ReplaceTemplate": a template was compiled;          *)
(* "compile_search": the pattern was compiled; "expand": a match was       *)
(* expanded).                                                              *)

FORMAT == 1

Raises(e, events) == [raises |-> e, returns |-> None, events |-> events]

Returns(v, events) == [raises |-> "None", returns |-> v, events |-> events]

\* hash(pattern)
hash(pattern) == pattern.hash

\* flags & FORMAT
use_format_flag(fl) == (fl \div FORMAT) % 2 = 1

\* ReplaceTemplate.__init__ run to its end
RECURSIVE construct(_, _)
construct(m, bin) == IF m.pc = "parse" THEN construct(step(m, bin), bin) ELSE m

\* the object the constructor leaves, m being the machine at its end
template_object(pattern, m) ==
    IF m.pc = "raised" THEN Raises(m.exc, <<"ReplaceTemplate">>)
    ELSE Returns([type |-> "ReplaceTemplate", use_format |-> m.use_format,
                  pattern_hash |-> hash(pattern), plan |-> m],
                 <<"ReplaceTemplate">>)

\* the one element of a set: a value computed once and then named
the(S) == CHOOSE v \in S : TRUE

\* ReplaceTemplate(pattern, template, use_format) as an expression
new_ReplaceTemplate(pattern, tpl, fmt) ==
    the({template_object(pattern, m) :
            m \in {construct(ReplaceTemplate(tpl, fmt), FALSE)}})

\* Replace(functools.partial(_apply_replace_backrefs, repl=repl),
\*         repl.use_format, repl.pattern_hash)
Replace(repl) ==
    [type |-> "Replace", func |-> repl, use_format |-> repl.use_format,
     pattern_hash |-> repl.pattern_hash]

\* ReplaceTemplateExpander(m, repl).expand(), x being the machine expand
\* leaves
expander_outcome(x) ==
    IF x.pc = "raised" THEN Raises(x.exc, <<"expand">>)
    ELSE Returns(x.expanded, <<"expand">>)

expand_template(m, repl) ==
    the({expander_outcome(x) : x \in {expand(repl.plan, m.captures)}})

\* the outcome a of a step, then the outcome b of the next one
Then(a, b) ==
    IF a.raises # "None" THEN a
    ELSE [raises |-> b.raises, returns |-> b.returns, events |-> a.events \o b.events]

_is_replace(obj) == obj.type \in {"ReplaceTemplate", "Replace"}

is_string(obj) == obj.type = "str"

\* ReplaceTemplateExpander(m, t).expand(), t being the outcome of the
\* expression for the template
expand_outcome(m, t) ==
    IF t.raises # "None" THEN t
    ELSE the({Then(t, x) : x \in {expand_template(m, t.returns)}})

\* the template _apply_replace_backrefs expands: the one the partial of a
\* Replace is bound to, the ReplaceTemplate given, or a new one for a string
template_expanded(m, repl, fl) ==
    CASE repl.type = "Replace" -> Returns(repl.func, <<>>)
      [] repl.type = "ReplaceTemplate" -> Returns(repl, <<>>)
      [] repl.type = "str" ->
           new_ReplaceTemplate(m.re, repl.text, use_format_flag(fl))

_apply_replace_backrefs(m, repl, fl) ==
    IF m.type = "NoneType" THEN Raises("ValueError: Match is None!", <<>>)
    ELSE IF repl.type \in {"Replace", "ReplaceTemplate", "str"}
    THEN the({expand_outcome(m, t) : t \in {template_expanded(m, repl, fl)}})
    ELSE Returns(None, <<>>)

\* the string case of compile_replace, t being the constructor's outcome
replace_of_new_template(t) ==
    IF t.raises # "None" THEN t ELSE Returns(Replace(t.returns), t.events)

compile_replace(pattern, repl, fl) ==
    IF pattern.type # "Pattern"
    THEN Raises("TypeError: Pattern must be a compiled regular expression!", <<>>)
    ELSE CASE repl.type = "str" ->
                the({replace_of_new_template(t) :
                        t \in {new_ReplaceTemplate(pattern, repl.text,
                                                   use_format_flag(fl))}})
           [] repl.type = "Replace" ->
                IF fl # 0
                THEN Raises("ValueError: Cannot process flags argument with a compiled pattern!", <<>>)
                ELSE IF repl.pattern_hash # hash(pattern)
                THEN Raises("ValueError: Pattern hash doesn't match hash in compiled replace!", <<>>)
                ELSE Returns(repl, <<>>)
           [] repl.type = "ReplaceTemplate" ->
                IF fl # 0
                THEN Raises("ValueError: Cannot process flags argument with a ReplaceTemplate!", <<>>)
                ELSE Returns(Replace(repl), <<>>)
           [] OTHER -> Raises("TypeError: Not a valid type!", <<>>)

\* _apply_search_backrefs and regex.compile on a pattern that is compiled
\* already or no pattern at all (a string pattern is the search side above)
compile_search(pattern, fl) ==
    CASE pattern.type = "Pattern" ->
           IF fl # 0
           THEN Raises("ValueError: Cannot process flags argument with a compiled pattern!",
                       <<"compile_search">>)
           ELSE Returns(pattern, <<"compile_search">>)
      [] pattern.type # "Pattern" /\ pattern.type # "str" ->
           Raises("TypeError: Not a string or compiled pattern!", <<"compile_search">>)

\* regex.sub(pattern, call, string, ...) on a string with one match, whose
\* captures are mt, c being the outcome of the expression for its second
\* argument: a Replace object is called with the match
regex_sub(pattern, c, mt) ==
    IF c.raises # "None" THEN c
    ELSE CASE c.returns.type = "Replace" ->
                the({Then(c, x) :
                        x \in {_apply_replace_backrefs(
                                   [type |-> "Match", re |-> pattern,
                                    captures |-> mt],
                                   c.returns.func, 0)}})

\* sub behind its check, p being compile_search's outcome
sub_compiled(p, repl, rflags, mt) ==
    IF p.raises # "None" THEN p
    ELSE the({Then(p, s) :
                 s \in {the({regex_sub(p.returns, c, mt) :
                                c \in {IF _is_replace(repl) \/ is_string(repl)
                                       THEN compile_replace(p.returns, repl, rflags)
                                       ELSE Returns(repl, <<>>)}})}})

\* sub without its check of the replace object
sub_unchecked(pattern, repl, fl, mt) ==
    sub_compiled(compile_search(pattern, fl), repl, 0, mt)

module_sub(pattern, repl, fl, mt) ==
    IF _is_replace(repl) /\ repl.use_format
    THEN Raises("ValueError: Compiled replace cannot be a format object!", <<>>)
    ELSE sub_compiled(compile_search(pattern, fl), repl, 0, mt)

\* regex.subn returns the new string and the number of substitutions
with_count(o) == IF o.raises # "None" THEN o ELSE [o EXCEPT !.returns = <<@, 1>>]

subn(pattern, repl, fl, mt) ==
    IF _is_replace(repl) /\ repl.use_format
    THEN Raises("ValueError: Compiled replace cannot be a format object!", <<>>)
    ELSE the({with_count(o) :
                 o \in {sub_compiled(compile_search(pattern, fl), repl, 0, mt)}})

subf(pattern, format, fl, mt) ==
    IF _is_replace(format) /\ ~format.use_format
    THEN Raises("ValueError: Compiled replace is not a format object!", <<>>)
    ELSE sub_compiled(compile_search(pattern, fl), format,
                      IF is_string(format) THEN FORMAT ELSE 0, mt)

subfn(pattern, format, fl, mt) ==
    IF _is_replace(format) /\ ~format.use_format
    THEN Raises("ValueError: Compiled replace is not a format object!", <<>>)
    ELSE the({with_count(o) :
                 o \in {sub_compiled(compile_search(pattern, fl), format,
                                     IF is_string(format) THEN FORMAT ELSE 0,
                                     mt)}})

\* the module-level expand(m, repl)
module_expand(m, repl) ==
    IF _is_replace(repl) /\ repl.use_format
    THEN Raises("ValueError: Replace should not be compiled as a format replace!", <<>>)
    ELSE IF ~_is_replace(repl) /\ ~is_string(repl)
    THEN Raises("TypeError: Expected string, buffer, or compiled replace!", <<>>)
    ELSE _apply_replace_backrefs(m, repl, 0)

expandf(m, format) ==
    IF _is_replace(format) /\ ~format.use_format
    THEN Raises("ValueError: Replace not compiled as a format replace", <<>>)
    ELSE IF ~_is_replace(format) /\ ~is_string(format)
    THEN Raises("TypeError: Expected string, buffer, or compiled replace!", <<>>)
    ELSE _apply_replace_backrefs(m, format, FORMAT)

\* the arguments of the calls: three compiled patterns, two of them with
\* the same hash; two templates, a group reference or refused in format
\* mode and plain text otherwise; a match of each pattern, and None
MaxObjects == 1

CompiledPatterns ==
    {[type |-> "Pattern", id |-> 1, hash |-> 1],
     [type |-> "Pattern", id |-> 2, hash |-> 2],
     [type |-> "Pattern", id |-> 3, hash |-> 1]}

ApiTemplates == {<<"{", "1", "}">>, <<BS, "c", "{">>}

StrArgs == {[type |-> "str", text |-> t] : t \in ApiTemplates}

PatternArgs == CompiledPatterns \cup StrArgs \cup {[type |-> "NoneType"]}

ReplArgs == StrArgs \cup {[type |-> "int"]}

FlagArgs == {0, FORMAT}

ApiCaptures == SubscriptMatches

MatchArgs ==
    {[type |-> "Match", re |-> p, captures |-> mt] :
        p \in {q \in CompiledPatterns : q.id < 3}, mt \in ApiCaptures}
    \cup {[type |-> "NoneType"]}

\* the variables no module-level function touches
machine_vars ==
    <<search, binary, re_verbose, re_version, special_only, pc, string,
      index, verbose, version, frames, exc, new_pattern, reentries,
      recurred, template, match, end_found, group_slots, literal_slots,
      result, span_stack, single_stack, slot, groups, literals, expanded,
      use_format, manual, auto, auto_index, applied>>

\* the call fn(given) ends with the outcome o; the object it returns is
\* kept for later calls if keep and there is room
Ends(fn, given, o, keep) ==
    /\ call' = [fn |-> fn, given |-> given, raises |-> o.raises,
                returns |-> o.returns, events |-> o.events]
    /\ objects' = IF keep /\ o.raises = "None" /\ Cardinality(objects) < MaxObjects
                  THEN objects \cup {o.returns}
                  ELSE objects
    /\ UNCHANGED <<machine_vars, expanders>>

NewTemplate ==
    \E pattern \in CompiledPatterns, tpl \in ApiTemplates, fmt \in BOOLEAN :
        \E o \in {new_ReplaceTemplate(pattern, tpl, fmt)} :
            Ends("ReplaceTemplate",
                 [pattern |-> pattern, template |-> tpl, use_format |-> fmt],
                 o, TRUE)

CompileReplace ==
    \E pattern \in PatternArgs, repl \in ReplArgs \cup objects, fl \in FlagArgs :
        \E o \in {compile_replace(pattern, repl, fl)} :
            Ends("compile_replace",
                 [pattern |-> pattern, repl |-> repl, flags |-> fl],
                 o, TRUE)

Sub ==
    \E pattern \in PatternArgs \ StrArgs, repl \in StrArgs \cup objects,
       fl \in FlagArgs, mt \in ApiCaptures :
        \E o \in {module_sub(pattern, repl, fl, mt)} :
            Ends("sub",
                 [pattern |-> pattern, repl |-> repl, flags |-> fl, mt |-> mt],
                 o, FALSE)

Subn ==
    \E pattern \in PatternArgs \ StrArgs, repl \in StrArgs \cup objects,
       fl \in FlagArgs, mt \in ApiCaptures :
        \E o \in {subn(pattern, repl, fl, mt)} :
            Ends("subn",
                 [pattern |-> pattern, repl |-> repl, flags |-> fl, mt |-> mt],
                 o, FALSE)

Subf ==
    \E pattern \in PatternArgs \ StrArgs, repl \in StrArgs \cup objects,
       fl \in FlagArgs, mt \in ApiCaptures :
        \E o \in {subf(pattern, repl, fl, mt)} :
            Ends("subf",
                 [pattern |-> pattern, repl |-> repl, flags |-> fl, mt |-> mt],
                 o, FALSE)

Subfn ==
    \E pattern \in PatternArgs \ StrArgs, repl \in StrArgs \cup objects,
       fl \in FlagArgs, mt \in ApiCaptures :
        \E o \in {subfn(pattern, repl, fl, mt)} :
            Ends("subfn",
                 [pattern |-> pattern, repl |-> repl, flags |-> fl, mt |-> mt],
                 o, FALSE)

ModuleExpand ==
    \E m \in MatchArgs, repl \in ReplArgs \cup objects :
        \E o \in {module_expand(m, repl)} :
            Ends("expand",
                 [m |-> m, repl |-> repl],
                 o, FALSE)

ModuleExpandf ==
    \E m \in MatchArgs, repl \in ReplArgs \cup objects :
        \E o \in {expandf(m, repl)} :
            Ends("expandf",
                 [m |-> m, repl |-> repl],
                 o, FALSE)

ApiNext ==
    \/ NewTemplate
    \/ CompileReplace
    \/ Sub
    \/ Subn
    \/ Subf
    \/ Subfn
    \/ ModuleExpand
    \/ ModuleExpandf

ApiInit ==
    /\ NoSearch
    /\ NoReplace
    /\ binary = FALSE
    /\ pc = "api"
    /\ string = <<>>
    /\ index = 0
    /\ frames = <<>>
    /\ exc = "None"

ApiSpec == ApiInit /\ [][ApiNext]_vars

-----------------------------------------------------------------------------
(* Expanders on one compiled template.  Each ReplaceTemplateExpander has    *)
(* its match, its place x in the loop of expand and the text collected so  *)
(* far; the template is the one in the variables of the replace side.  An  *)
(* action is the constructor, the head of expand, one iteration of its     *)
(* loop, or its return, so the expansions of several expanders interleave. *)

\* ReplaceTemplateExpander(match, template)
ReplaceTemplateExpander(mt) ==
    [match |-> mt, index |-> 0 - 1, end_found |-> FALSE, parent_span |-> <<>>,
     pc |-> "init", x |-> 0, stop |-> 0, text |-> <<>>, returned |-> <<>>,
     exc |-> "None"]

\* expand up to its loop: text = [] and the range of the loop
expand_begin(m, e) ==
    [e EXCEPT !.pc = "loop", !.x = 0, !.stop = Len(m.literals), !.text = <<>>]

\* an iteration that stores what it expanded in the template's literals
expand_iteration_in_place(m, e) ==
    IF m.literals[e.x + 1] # NoLiteral
    THEN [template |-> m,
          expander |-> [e EXCEPT !.text = Append(@, m.literals[e.x + 1]),
                                 !.x = @ + 1]]
    ELSE IF out_of_range(e.match[get_group_index(m.groups, e.x)],
                         get_group_attributes(m.group_slots, e.x)[3])
    THEN [template |-> m,
          expander |-> [e EXCEPT !.pc = "raised", !.exc = "IndexError"]]
    ELSE [template |-> [m EXCEPT !.literals[e.x + 1] =
                                     expand_group(m, e.match, e.x)],
          expander |-> [e EXCEPT !.text = Append(@, expand_group(m, e.match, e.x)),
                                 !.x = @ + 1]]

\* one iteration of the loop of expand: the template it leaves and the
\* expander it leaves
expand_iteration(m, e) ==
    IF m.literals[e.x + 1] # NoLiteral
    THEN [template |-> m,
          expander |-> [e EXCEPT !.text = Append(@, m.literals[e.x + 1]),
                                 !.x = @ + 1]]
    ELSE IF out_of_range(e.match[get_group_index(m.groups, e.x)],
                         get_group_attributes(m.group_slots, e.x)[3])
    THEN [template |-> m,
          expander |-> [e EXCEPT !.pc = "raised", !.exc = "IndexError"]]
    ELSE [template |-> m,
          expander |-> [e EXCEPT !.text = Append(@, expand_group(m, e.match, e.x)),
                                 !.x = @ + 1]]

\* return sep.join(text)
expand_return(e) == [e EXCEPT !.pc = "returned", !.returned = Flatten(e.text)]

\* the expanders are served at most MaxExpanders at a time
MaxExpanders == 2

\* the templates expanded, each with its mode
ExpanderTemplates ==
    {<<<<BS, "c", BS, "1", "a">>, FALSE>>,
     <<<<"a", BS, "L", BS, "1", BS, "E">>, FALSE>>,
     <<<<"{", "1", "[", "0", "]", "}", "a", "{", "2", "}">>, TRUE>>,
     <<<<BS, "C", "{", "}", BS, "E", "{", "}">>, TRUE>>}

ExpanderMatches == FormatMatches

\* what the expanders leave alone
expander_frame ==
    <<args, template, match, use_format, verbose, version, new_pattern,
      reentries, recurred, objects, call>>

NewExpander ==
    /\ Len(expanders) < MaxExpanders
    /\ \E mt \in ExpanderMatches :
           expanders' = Append(expanders, ReplaceTemplateExpander(mt))
    /\ UNCHANGED <<machine_vars, objects, call>>

ExpandBegin ==
    \E i \in 1..Len(expanders) :
        /\ expanders[i].pc = "init"
        /\ expanders' = [expanders EXCEPT ![i] = expand_begin(ReplaceMachine, @)]
        /\ UNCHANGED <<machine_vars, objects, call>>

ExpandIteration ==
    \E i \in 1..Len(expanders) :
        /\ expanders[i].pc = "loop"
        /\ expanders[i].x < expanders[i].stop
        /\ \E r \in {expand_iteration(ReplaceMachine, expanders[i])} :
               /\ MachineBecomes(r.template)
               /\ expanders' = [expanders EXCEPT ![i] = r.expander]
        /\ UNCHANGED expander_frame

ExpandReturn ==
    \E i \in 1..Len(expanders) :
        /\ expanders[i].pc = "loop"
        /\ expanders[i].x >= expanders[i].stop
        /\ expanders' = [expanders EXCEPT ![i] = expand_return(@)]
        /\ UNCHANGED <<machine_vars, objects, call>>

ExpanderNext ==
    \/ NewExpander
    \/ ExpandBegin
    \/ ExpandIteration
    \/ ExpandReturn

\* the fields of the template and its tokenizer are those of m
MachineIs(m) ==
    /\ pc = m.pc
    /\ string = m.string
    /\ index = m.index
    /\ frames = m.frames
    /\ exc = m.exc
    /\ end_found = m.end_found
    /\ group_slots = m.group_slots
    /\ literal_slots = m.literal_slots
    /\ result = m.result
    /\ span_stack = m.span_stack
    /\ single_stack = m.single_stack
    /\ slot = m.slot
    /\ groups = m.groups
    /\ literals = m.literals
    /\ expanded = m.expanded
    /\ manual = m.manual
    /\ auto = m.auto
    /\ auto_index = m.auto_index

\* a template has been compiled; no expander yet
ExpanderInit ==
    /\ NoSearch
    /\ binary = FALSE
    /\ match = <<>>
    /\ objects = {}
    /\ call = NoCall
    /\ expanders = <<>>
    /\ \E tf \in ExpanderTemplates :
           /\ template = tf[1]
           /\ use_format = tf[2]
           /\ \E m \in {construct(ReplaceTemplate(tf[1], tf[2]), FALSE)} :
                  MachineIs(m)

ExpanderSpec == ExpanderInit /\ [][ExpanderNext]_vars

-----------------------------------------------------------------------------
(* Properties of the search template.  Patterns are compared as sequences   *)
(* of characters; apply has returned when pc = "done", and new_pattern is   *)
(* then the pattern it handed to the regex engine.                          *)

Occurs(s, c) == \E k \in 1..Len(s) : s[k] = c

\* the characters that make an extended escape when a backslash precedes them
ExtendedEscapes == {"Q", "E", "<", ">", "R", "e"}

NoExtendedEscape(s) ==
    \A k \in 1..(Len(s) - 1) : ~(s[k] = BS /\ s[k + 1] \in ExtendedEscapes)

\* the number of backslashes immediately in front of position k of s
BackslashRun(s, k) ==
    CHOOSE n \in 0..(k - 1) :
        /\ \A j \in (k - n)..(k - 1) : s[j] = BS
        /\ (k - n = 1 \/ s[k - n - 1] # BS)

\* c stands at some position of s and is escaped there
LiveEscape(s, c) ==
    \E k \in 1..Len(s) : s[k] = c /\ BackslashRun(s, k) % 2 = 1

\* text that an ordinary scan copies character by character
PlainText(s) == \A k \in 1..Len(s) : s[k] \notin {BS, "(", ")", "[", "]", "#"}

\* C1: apply terminates for every pattern, whatever inline flag groups it
\* carries.  The scan is deterministic and the scanned string is fixed, so a
\* loop that is re-entered with the frames, index, verbosity and version it
\* was re-entered with before repeats for ever; termination needs that this
\* never happens.
C1_ApplyTerminates == ~recurred

\* C2: no retry signal leaves apply.  A RetryException is cleared by the
\* body loop of the innermost group being scanned, which rewinds to the
\* start of that group's body, or, outside every group, by apply, which
\* rewinds to 0; a GlobalRetryException passes every group and is cleared by
\* apply.
C2_RetrySignalsContained ==
    [][/\ pc' # "raised"
       /\ (exc # "None" /\ frames = <<>>) =>
              (exc' = "None" /\ frames' = <<main_group_frame>> /\ index' = 0)
       /\ (exc = "RetryException" /\ frames # <<>> /\ Top(frames).fn = "subgroup") =>
              /\ exc' = "None"
              /\ Len(frames') = Len(frames)
              /\ Top(frames').current = Top(frames).start
              /\ index' = Top(frames).index
       /\ (exc = "GlobalRetryException" /\ frames # <<>>) =>
              (exc' = exc /\ frames' = Pop(frames))
       /\ (exc = "RetryException" /\ frames # <<>> /\ Top(frames).fn # "subgroup") =>
              (exc' = exc /\ frames' = <<>>)]_vars

\* apply has returned after its loop cleared a version change and a group's
\* body loop cleared a verbosity change
C2_BothSignalsCleared ==
    /\ pc = "done"
    /\ re_version = 0
    /\ \E m \in reentries : Len(m.frames) = 1 /\ m.version = VERSION1
    /\ \E m \in reentries : Len(m.frames) > 1 /\ m.verbose

\* C3: a pattern without \Q, \E, \<, \>, \R and \e comes out of apply as it
\* went in.
C3_PassThrough ==
    (pc = "done" /\ NoExtendedEscape(search)) => new_pattern = search

\* apply has returned a pattern with a group, an inline flag group that made
\* it scan again, and a verbose comment
C3_PlainPatternReturned ==
    /\ pc = "done"
    /\ NoExtendedEscape(search)
    /\ reentries # {}
    /\ Contains(search, <<"(", "?", "x", ")">>)
    /\ Occurs(search, "#")
    /\ Occurs(search, NL)

\* the text between the \Q at the head and the \E at the tail of s
QuotedBody(s) == Slice(s, 2, Len(s) - 2)

IsQuotedSpan(s) ==
    /\ Len(s) >= 4
    /\ Slice(s, 0, 2) = <<BS, "Q">>
    /\ Slice(s, Len(s) - 2, Len(s)) = <<BS, "E">>
    /\ ~Contains(QuotedBody(s), <<BS, "E">>)

\* C4: for a text s without \E, the pattern \Q s \E is rewritten to
\* escape(s), also when s ends in a backslash or holds characters escape
\* puts a backslash in front of.
C4_QuotedSpanIsEscaped ==
    (pc = "done" /\ IsQuotedSpan(search)) =>
        new_pattern = escape(QuotedBody(search))

\* the position of the first backslash of s
FirstBackslash(s) ==
    CHOOSE k \in 1..Len(s) : s[k] = BS /\ \A j \in 1..(k - 1) : s[j] # BS

DanglingBefore(s) == Slice(s, 0, FirstBackslash(s) - 1)

DanglingRest(s) == Slice(s, FirstBackslash(s) + 1, Len(s))

\* s is plain text, a \Q, and a rest in which no \E is live
HasDanglingQuote(s) ==
    /\ Occurs(s, BS)
    /\ FirstBackslash(s) < Len(s)
    /\ s[FirstBackslash(s) + 1] = "Q"
    /\ PlainText(DanglingBefore(s))
    /\ ~LiveEscape(DanglingRest(s), "E")

\* C5: after a \Q that no live \E follows, the rest of the pattern is
\* escaped as literal text, a trailing lone backslash included, and the text
\* in front of the \Q is scanned as usual.
C5_DanglingQuoteEscapesRest ==
    (pc = "done" /\ HasDanglingQuote(search)) =>
        new_pattern = DanglingBefore(search) \o escape(DanglingRest(search))

\* the text between "[\Q" and "\E]"
ClassQuotedBody(s) == Slice(s, 3, Len(s) - 3)

IsClassWithQuotedSpan(s) ==
    /\ Len(s) >= 6
    /\ Slice(s, 0, 3) = <<"[", BS, "Q">>
    /\ Slice(s, Len(s) - 3, Len(s)) = <<BS, "E", "]">>
    /\ \A k \in 1..Len(ClassQuotedBody(s)) :
           ClassQuotedBody(s)[k] \notin {BS, "[", "]", "^"}

\* C6: inside a bracketed character class the text between \Q and \E gets
\* no backslash in front of any of its characters.
C6_NoQuotingInsideClass ==
    (pc = "done" /\ IsClassWithQuotedSpan(search)) =>
        new_pattern = <<"[">> \o ClassQuotedBody(search) \o <<"]">>

\* C7: inside a character class an escaped <, > or R is copied with its
\* backslash instead of being expanded, and an escaped ] or [ is copied
\* without closing, opening or nesting a class.
C7_ClassEscapesCopied ==
    [][(/\ Running("char_groups")
        /\ ~StopIteration
        /\ Top(frames).escaped
        /\ At(string, index) \in {"<", ">", "R", "[", "]"}) =>
           /\ Len(frames') = Len(frames)
           /\ Top(frames').fn = "char_groups"
           /\ Top(frames').current = Top(frames).current \o <<BS, At(string, index)>>
           /\ Top(frames').found = Top(frames).found
           /\ ~Top(frames').escaped
           /\ index' = index + 1]_vars

\* a class is being scanned, still open at depth 1 after an escaped ]
C7_EscapedBracketCopied ==
    /\ Running("char_groups")
    /\ Top(frames).found = 1
    /\ Contains(Top(frames).current, <<BS, "]">>)

\* what a backslash and the character t behind it are to become outside
\* classes, quoted spans and comments
Expansion(t, bin) ==
    CASE t = "<" -> _re_start_wb
      [] t = ">" -> _re_end_wb
      [] t = "R" -> IF bin THEN _binary_line_break ELSE _line_break
      [] t = "e" -> _re_escape
      [] OTHER   -> <<BS, t>>

RECURSIVE Expand(_, _)
Expand(s, bin) ==
    IF s = <<>> THEN <<>>
    ELSE IF Head(s) = BS /\ Len(s) >= 2
    THEN Expansion(s[2], bin) \o Expand(Tail(Tail(s)), bin)
    ELSE <<Head(s)>> \o Expand(Tail(s), bin)

\* s has no character class and no quoted span, and is scanned with
\* verbose mode off throughout, so that it has no verbose comment
NoClassQuoteVerbose(s) ==
    /\ ~Occurs(s, "[")
    /\ ~Occurs(s, "Q")
    /\ ~Occurs(s, "E")
    /\ ~Occurs(s, "x")
    /\ ~re_verbose

HasInlineComment(s) == Contains(s, <<"(", "?", "#">>)

IsInlineComment(s) ==
    /\ Len(s) >= 4
    /\ Slice(s, 0, 3) = <<"(", "?", "#">>
    /\ s[Len(s)] = ")"
    /\ ~Occurs(Slice(s, 3, Len(s) - 1), ")")

\* C9: an inline comment group (?#...) comes out of apply as it was
\* written, a \Q...\E inside it included.
C9_InlineCommentVerbatim ==
    (pc = "done" /\ IsInlineComment(search)) => new_pattern = search

\* s is one # comment: nothing follows its newline
IsVerboseComment(s) ==
    /\ Len(s) >= 1
    /\ s[1] = "#"
    /\ \A k \in 1..(Len(s) - 1) : s[k] # NL

\* C10: in verbose mode a # comment, up to and including its newline, comes
\* out of apply as it was written, a \Q...\E inside it included.
C10_VerboseCommentVerbatim ==
    (pc = "done" /\ re_verbose /\ IsVerboseComment(search)) =>
        new_pattern = search

\* the number of places of s at which sub stands
CountSub(s, sub) ==
    Cardinality({k \in 0..(Len(s) - Len(sub)) : Slice(s, k, k + Len(sub)) = sub})

\* the word-boundary shorthands that were expanded: inside a comment a \<
\* is not
ExpandedBoundaries == CountSub(new_pattern, _re_start_wb)

\* every line of a RestartText is "#\<" and a newline
CommentLines(s) == CountSub(s, <<"#">>)

Brackets == {<<<<>>, <<>>>>, <<<<"(">>, <<")">>>>}

C12_TopLevelFlagCoversWholePattern ==
    /\ [](\A pre \in RestartText, post \in RestartText :
            (pc = "done" /\ ~re_verbose /\ search = pre \o VerboseFlag \o post)
            => (verbose /\ ExpandedBoundaries = 0))
    /\ [][(exc = "RetryException" /\ verbose /\ frames = <<>>) =>
             /\ exc' = "None"
             /\ index' = 0
             /\ verbose'
             /\ frames' = <<main_group_frame>>]_vars

\* apply has returned a pattern whose last thing is (?x), behind a # line
C12_FlagAtEndReturned ==
    /\ pc = "done"
    /\ ~re_verbose
    /\ search = RestartLine \o VerboseFlag
    /\ reentries # {}

\* self.version as apply sets it from re_version
InitialVersion == IF re_version # 0 THEN re_version ELSE DEFAULT_VERSION

\* a backslash escapes the one parenthesis behind it and an inline comment
\* ends at the first ")": these shield the first flag group only
ShieldsOne(sh) == sh[1] \in {<<BS>>, <<"(", "?", "#">>}

\* s is flag groups behind a backslash, inside a class, a quoted span, an
\* inline comment or (verbose being on) a # comment
IsShielded(s) ==
    \E sh \in Shields, f \in Patterns(ShieldedFlags, MaxShieldedFlags),
       post \in {<<>>, <<"#", BS, "<">>} :
        /\ f # <<>>
        /\ s = sh[1] \o f \o sh[2] \o post
        /\ (sh[1] = <<"#">> => re_verbose)
        /\ (ShieldsOne(sh) => f \in ShieldedFlags)

\* C13: the text of an inline flag group whose parenthesis is escaped, or
\* which lies in a character class, a \Q...\E span or a comment, changes
\* neither the verbosity nor the dialect: after apply both are the initial
\* ones.
C13_ShieldedFlagGroupIsInert ==
    (pc = "done" /\ IsShielded(search)) =>
        (verbose = re_verbose /\ version = InitialVersion)

\* apply has returned an inline comment that holds the text (?V1), the
\* dialect still being version 0
C13_FlagInCommentReturned ==
    /\ pc = "done"
    /\ search = <<"(", "?", "#", "(", "?", "V", "1", ")", ")">>
    /\ version = VERSION0

-----------------------------------------------------------------------------
(* Replace templates: what the claims speak of.  A unit is a literal       *)
(* character or a group reference; the directives are \c \l (single),     *)
(* \C \L (span) and the end marker \E.                                     *)
(* These are the templates compiled without FORMAT (use_format is FALSE);  *)
(* a format template has fields in braces in place of group references    *)
(* and is read by the properties of the format fields further down.       *)

\* the tokens of s from index q on
RECURSIVE TokensFrom(_, _)
TokensFrom(s, q) ==
    IF q >= Len(s) THEN <<>>
    ELSE LET t == iternext(s, q, FALSE).token
         IN <<t>> \o TokensFrom(s, q + Len(t))

TemplateTokens == TokensFrom(template, 0)

IsSingle(t) == t \in {<<BS, "c">>, <<BS, "l">>}

IsSpan(t) == t \in {<<BS, "C">>, <<BS, "L">>}

IsEnd(t) == t = <<BS, "E">>

IsUnit(t) == ~IsSingle(t) /\ ~IsSpan(t) /\ ~IsEnd(t)

IsGroupRef(t) == Len(t) > 1 /\ IsUnit(t)

\* the case a directive asks for
CaseOf(t) == IF t[2] \in {"c", "C"} THEN _UPPER ELSE _LOWER

\* the text a unit stands for: the character itself, or the last capture
\* of the group
UnitText(t) ==
    IF Len(t) = 1 THEN t
    ELSE match[group_number(t)][Len(match[group_number(t)])]

\* the text of the units among the tokens ts, no case changed
Uncased(ts) ==
    Flatten([k \in 1..Len(ts) |-> IF IsUnit(ts[k]) THEN UnitText(ts[k]) ELSE <<>>])

\* v with its first character in the given case
FirstIn(v, case) == convert_case(Slice(v, 0, 1), case) \o Slice(v, 1, Len(v))

Before(ts, k) == SubSeq(ts, 1, k - 1)

After(ts, k) == SubSeq(ts, k + 1, Len(ts))

AllUnits(ts) == \A k \in 1..Len(ts) : IsUnit(ts[k])

\* the positions of the case directives among ts
Directives(ts) == {k \in 1..Len(ts) : IsSingle(ts[k]) \/ IsSpan(ts[k])}

\* the token behind position k of ts is the end marker
EndFollows(ts, k) == k < Len(ts) /\ IsEnd(ts[k + 1])

\* the positions among ts of the character escapes: octal, \x and \u
CharEscapes(ts) ==
    {k \in 1..Len(ts) : Len(ts[k]) > 1 /\ Kind(ts[k]) \in {"octal", "code"}}

\* a template of units and directives, compiled without FORMAT: its units
\* are literal characters and references to groups that have captured
CaseTemplate ==
    /\ ~use_format
    /\ CharEscapes(TemplateTokens) = {}
    /\ \A k \in 1..Len(TemplateTokens) :
           IsGroupRef(TemplateTokens[k])
               => match[group_number(TemplateTokens[k])] # <<>>

\* C14: in a template whose one case directive is a single-char directive,
\* the expansion is the text of the units with exactly one character
\* changed: the first character of the first unit behind the directive.
\* Units in front of the directive and later units, a group behind literal
\* characters included, are unchanged.  (Where \E stands directly behind
\* the directive, the directive changing nothing is accepted as well.)
C14_SingleChangesOneUnit ==
    (CaseTemplate /\ pc = "expanded") =>
    \A k \in 1..Len(TemplateTokens) :
        (/\ Directives(TemplateTokens) = {k}
         /\ IsSingle(TemplateTokens[k]))
        => \/ expanded = Uncased(Before(TemplateTokens, k))
                         \o FirstIn(Uncased(After(TemplateTokens, k)),
                                    CaseOf(TemplateTokens[k]))
           \/ /\ EndFollows(TemplateTokens, k)
              /\ expanded = Uncased(TemplateTokens)

\* the directives of ts are the single-char directives at a..b, two or more
\* in a row, and a unit stands directly behind them
StackedSingles(ts, a, b) ==
    /\ a < b
    /\ b < Len(ts)
    /\ Directives(ts) = a..b
    /\ \A k \in a..b : IsSingle(ts[k])
    /\ IsUnit(ts[b + 1])

\* C15 as stated: when several single-char directives stand in a row in
\* front of a unit, the last of them decides the case of the unit's first
\* character, the others are dropped, and no error is raised.
C15_LastPendingSingleDecides ==
    (CaseTemplate /\ pc \in {"raised", "expanded"}) =>
    \A a, b \in 1..Len(TemplateTokens) :
        StackedSingles(TemplateTokens, a, b) =>
            /\ pc # "raised"
            /\ pc = "expanded" =>
                   expanded = Uncased(Before(TemplateTokens, a))
                              \o FirstIn(Uncased(After(TemplateTokens, b)),
                                         CaseOf(TemplateTokens[b]))

\* C15, amended: when several single-char directives stand in a row in
\* front of a unit, the first of them decides the case of the unit's first
\* character, the later ones are dropped, and no error is raised.
C15_FirstPendingSingleDecides ==
    (CaseTemplate /\ pc \in {"raised", "expanded"}) =>
    \A a, b \in 1..Len(TemplateTokens) :
        StackedSingles(TemplateTokens, a, b) =>
            /\ pc # "raised"
            /\ pc = "expanded" =>
                   expanded = Uncased(Before(TemplateTokens, a))
                              \o FirstIn(Uncased(After(TemplateTokens, b)),
                                         CaseOf(TemplateTokens[a]))

\* \l\c\1 has been expanded: the group's first character is left in lower
\* case
C15_StackedSinglesExpanded ==
    /\ pc = "expanded"
    /\ TemplateTokens = <<<<BS, "l">>, <<BS, "c">>, <<BS, "1">>>>
    /\ expanded = <<"x", "Y">>

\* the position of the first end marker of ts, or Len(ts) + 1
FirstEnd(ts) ==
    IF \E k \in 1..Len(ts) : IsEnd(ts[k])
    THEN CHOOSE k \in 1..Len(ts) : IsEnd(ts[k]) /\ \A j \in 1..(k - 1) : ~IsEnd(ts[j])
    ELSE Len(ts) + 1

\* the units of ts in the given case up to the first end marker, unchanged
\* behind it
SpanThenPlain(ts, case) ==
    convert_case(Uncased(Before(ts, FirstEnd(ts))), case)
    \o Uncased(After(ts, FirstEnd(ts)))

Opposite(s, t) == IsSingle(s) /\ IsSingle(t) /\ CaseOf(s) # CaseOf(t)

\* C16: two single-char directives of opposite case stacked in front of a
\* group, the template's only directives: the group's text comes out with
\* its first character in the case of the first directive and the rest
\* unchanged.  With a span opened between the two: the first character in
\* the case of the first directive, the rest in the span's case.
C16_FirstIssuedSingleWins ==
    (CaseTemplate /\ pc = "expanded") =>
    \A a \in 1..Len(TemplateTokens) :
        LET ts == TemplateTokens IN
        /\ (/\ a + 2 <= Len(ts)
            /\ Directives(ts) = {a, a + 1}
            /\ Opposite(ts[a], ts[a + 1])
            /\ IsGroupRef(ts[a + 2]))
           => expanded = Uncased(Before(ts, a))
                         \o FirstIn(UnitText(ts[a + 2]), CaseOf(ts[a]))
                         \o Uncased(After(ts, a + 2))
        /\ (/\ a + 3 <= Len(ts)
            /\ Directives(ts) = {a, a + 1, a + 2}
            /\ IsSpan(ts[a + 1])
            /\ Opposite(ts[a], ts[a + 2])
            /\ IsGroupRef(ts[a + 3]))
           => expanded = Uncased(Before(ts, a))
                         \o FirstIn(convert_case(UnitText(ts[a + 3]),
                                                 CaseOf(ts[a + 1])),
                                    CaseOf(ts[a]))
                         \o SpanThenPlain(After(ts, a + 3), CaseOf(ts[a + 1]))

\* \c\L\l\1 has been expanded to the capture in lower case with an
\* upper-case first character
C16_StackedAcrossSpanExpanded ==
    /\ pc = "expanded"
    /\ TemplateTokens = <<<<BS, "c">>, <<BS, "L">>, <<BS, "l">>, <<BS, "1">>>>
    /\ expanded = <<"X", "y">>

EndsWith(s, suffix) ==
    Len(suffix) <= Len(s) /\ Slice(s, Len(s) - Len(suffix), Len(s)) = suffix

\* the span directive at position p of ts is the only one; in front of it
\* stand units, end markers and single-char directives each directly
\* followed by a unit or an end marker; behind it no directive
LoneSpan(ts, p) ==
    /\ IsSpan(ts[p])
    /\ \A k \in Directives(ts) \ {p} :
           k + 1 < p /\ IsSingle(ts[k]) /\ (IsUnit(ts[k + 1]) \/ IsEnd(ts[k + 1]))

\* the cases of the single-char directives in front of position p of ts
\* that are directly followed by \E
EndedSingles(ts, p) ==
    {CaseOf(ts[k]) : k \in {j \in 1..(p - 2) : IsSingle(ts[j]) /\ IsEnd(ts[j + 1])}}

\* C17: the units between a span directive and its \E, or the end of the
\* template, come out in the span's case and the units behind the \E
\* unchanged, whatever stands in front of the span directive: units, end
\* markers, single-char directives followed by a unit or by \E.  (Behind a
\* single-char directive directly followed by \E this is stated for all
\* but the first character, the one such a directive could reach.)
C17_SpanConvertsUpToItsEnd ==
    (CaseTemplate /\ pc = "expanded") =>
    \A p \in 1..Len(TemplateTokens) :
        LET ts == TemplateTokens
            behind == SpanThenPlain(After(ts, p), CaseOf(ts[p]))
        IN LoneSpan(ts, p) =>
               /\ behind # <<>> => EndsWith(expanded, Tail(behind))
               /\ EndedSingles(ts, p) = {} => EndsWith(expanded, behind)

\* the cases of the spans that the tokens ts have opened and no \E has
\* closed, outermost first
RECURSIVE OpenSpans(_)
OpenSpans(ts) ==
    IF ts = <<>> THEN <<>>
    ELSE LET open == OpenSpans(Before(ts, Len(ts)))
             t == ts[Len(ts)]
         IN IF IsSpan(t) THEN Append(open, CaseOf(t))
            ELSE IF IsEnd(t) /\ open # <<>> THEN Pop(open)
            ELSE open

\* the tokens read so far
TokensRead == TokensFrom(Slice(string, 0, index), 0)

\* the running frame is about to read a token
AtToken ==
    /\ pc = "parse"
    /\ index < Len(string)
    /\ (Top(frames).fn = "parse_template" \/ ~Top(frames).called)

\* ts holds two span directives, at p and q, the second inside the first,
\* and no other directive
NestedSpans(ts, p, q) ==
    /\ p < q
    /\ Directives(ts) = {p, q}
    /\ IsSpan(ts[p])
    /\ IsSpan(ts[q])
    /\ \A k \in p..q : ~IsEnd(ts[k])

\* the expansion of the tokens behind an inner span directive: the inner
\* span's case up to the first \E, the outer span's up to the second
InnerThenOuter(ts, inner, outer) ==
    convert_case(Uncased(Before(ts, FirstEnd(ts))), inner)
    \o SpanThenPlain(After(ts, FirstEnd(ts)), outer)

\* C18: while a template is compiled the span stack holds exactly the
\* spans opened and not yet closed by their \E: an entry is pushed where a
\* span directive is read and popped where its \E is read, or at the end of
\* the template, where the stack is empty.  In a template with a span
\* inside a span the units of the inner span come out in the inner case,
\* the units between the inner \E and the outer \E in the outer case.
C18_SpansNest ==
    ~use_format =>
    /\ AtToken => span_stack = OpenSpans(TokensRead)
    /\ pc \in {"compiled", "expanded"} => span_stack = <<>>
    /\ (pc = "expanded" /\ CaseTemplate) =>
       \A p, q \in 1..Len(TemplateTokens) :
           LET ts == TemplateTokens IN
           NestedSpans(ts, p, q) =>
               expanded = Uncased(Before(ts, p))
                          \o convert_case(Uncased(SubSeq(ts, p + 1, q - 1)),
                                          CaseOf(ts[p]))
                          \o InnerThenOuter(After(ts, q), CaseOf(ts[q]),
                                            CaseOf(ts[p]))

\* ts holds a span directive at p and, inside the span, a single-char
\* directive at q directly in front of a unit; between the two stand units
\* only, behind the unit no directive, and in front of the span what
\* LoneSpan allows
SingleInSpan(ts, p, q) ==
    /\ p < q
    /\ q < Len(ts)
    /\ IsSpan(ts[p])
    /\ IsSingle(ts[q])
    /\ IsUnit(ts[q + 1])
    /\ AllUnits(SubSeq(ts, p + 1, q - 1))
    /\ \A k \in Directives(ts) \ {p, q} :
           k + 1 < p /\ IsSingle(ts[k]) /\ (IsUnit(ts[k + 1]) \/ IsEnd(ts[k + 1]))

\* C19: a single-char directive inside an open span: the units of the span
\* in front of it come out in the span's case, the unit behind it in the
\* span's case with its first character in the directive's case, and the
\* units that follow, up to the span's \E, in the span's case again.
\* (Where a single-char directive directly followed by \E stands in front
\* of the span, only the part no such directive can reach is stated: the
\* rest of the unit and the units that follow.)
C19_SingleInsideSpan ==
    (CaseTemplate /\ pc = "expanded") =>
    \A p, q \in 1..Len(TemplateTokens) :
        LET ts == TemplateTokens
            unit == convert_case(UnitText(ts[q + 1]), CaseOf(ts[p]))
            behind == SpanThenPlain(After(ts, q + 1), CaseOf(ts[p]))
        IN SingleInSpan(ts, p, q) =>
               /\ EndsWith(expanded, Tail(unit) \o behind)
               /\ EndedSingles(ts, p) = {} =>
                      EndsWith(expanded,
                               convert_case(Uncased(SubSeq(ts, p + 1, q - 1)),
                                            CaseOf(ts[p]))
                               \o FirstIn(unit, CaseOf(ts[q]))
                               \o behind)

\* what a template comes to: the compiled plan and the expansion, or the
\* exception
Outcome(m) ==
    [pc |-> m.pc, exc |-> m.exc, literals |-> m.literals, groups |-> m.groups,
     group_slots |-> m.group_slots, expanded |-> m.expanded]

\* the outcome of the template made of the tokens ts
OutcomeOf(ts) == Outcome(run(ReplaceTemplate(Flatten(ts), use_format), binary, match))

\* the token at position k of ts is a \E met while no span is open
StrayEnd(ts, k) == IsEnd(ts[k]) /\ OpenSpans(Before(ts, k)) = <<>>

\* C20: a \E met while no span is open is a no-op: the template without it
\* compiles to the same plan and expands to the same text, also where the
\* \E directly follows a single-char directive and where a span is opened
\* behind it.
C20_StrayEndIsNoOp ==
    (~use_format /\ pc \in {"expanded", "raised"}) =>
    \A k \in 1..Len(TemplateTokens) :
        StrayEnd(TemplateTokens, k) =>
            Outcome(ReplaceMachine)
                = OutcomeOf(Before(TemplateTokens, k) \o After(TemplateTokens, k))

\* the tokens ts are units, a span directive at p with units behind it, a
\* single-char directive at q directly followed by the \E that closes the
\* span, and units behind that
SingleBeforeSpanEnd(ts, p, q) ==
    /\ p < q /\ q < Len(ts)
    /\ IsSpan(ts[p]) /\ IsSingle(ts[q]) /\ IsEnd(ts[q + 1])
    /\ AllUnits(Before(ts, p))
    /\ AllUnits(SubSeq(ts, p + 1, q - 1))
    /\ AllUnits(After(ts, q + 1))

\* C21: a single-char directive that is still pending when \E closes its
\* span is discarded: the units behind the closed span, literal characters
\* and groups alike, come out unchanged.
C21_PendingSingleDiscardedAtSpanEnd ==
    (CaseTemplate /\ pc = "expanded") =>
    \A p, q \in 1..Len(TemplateTokens) :
        LET ts == TemplateTokens
        IN SingleBeforeSpanEnd(ts, p, q) =>
               expanded = Uncased(Before(ts, p))
                          \o convert_case(Uncased(SubSeq(ts, p + 1, q - 1)),
                                          CaseOf(ts[p]))
                          \o Uncased(After(ts, q + 1))

-----------------------------------------------------------------------------
(* Format templates: what the claims speak of.  A field is a token         *)
(* {name-or-index[subscript]}; it is automatic when it has neither name    *)
(* nor index.                                                              *)

\* the tokens of the format template s from index q on, up to the first
\* the tokenizer refuses
RECURSIVE FormatTokensFrom(_, _)
FormatTokensFrom(s, q) ==
    IF q >= Len(s) \/ format_iternext(s, q, FALSE).raises # "None" THEN <<>>
    ELSE <<format_iternext(s, q, FALSE).token>>
         \o FormatTokensFrom(s, format_iternext(s, q, FALSE).index)

FormatTokens == FormatTokensFrom(template, 0)

IsField(t) == Len(t) > 1 /\ t[1] = "{"

IsAutomatic(t) == IsField(t) /\ t[2] \in {"}", "["}

IsExplicit(t) == IsField(t) /\ ~IsAutomatic(t)

HasSubscript(t) == IsField(t) /\ \E k \in 1..Len(t) : t[k] = "["

\* the text between the square brackets of a field
Subscript(t) ==
    LET open == CHOOSE k \in 1..Len(t) : t[k] = "[" /\ \A j \in 1..(k - 1) : t[j] # "["
    IN SubSeq(t, open + 1, Len(t) - 2)

\* the base a subscript is written in: 2, 8 or 16 behind 0b, 0o, 0x, the
\* minus sign set aside, 10 otherwise
Unsigned(sub) == IF sub # <<>> /\ sub[1] = "-" THEN Tail(sub) ELSE sub

BaseOf(sub) ==
    CASE Slice(Unsigned(sub), 0, 2) = <<"0", "b">> -> 2
      [] Slice(Unsigned(sub), 0, 2) = <<"0", "o">> -> 8
      [] Slice(Unsigned(sub), 0, 2) = <<"0", "x">> -> 16
      [] OTHER -> 10

DigitsOf(sub) ==
    IF BaseOf(sub) = 10 THEN Unsigned(sub)
    ELSE SubSeq(Unsigned(sub), 3, Len(Unsigned(sub)))

\* the digits of a base and their values
BaseDigits(base) ==
    SubSeq(<<"0", "1", "2", "3", "4", "5", "6", "7", "8", "9",
             "a", "b", "c", "d", "e", "f">>, 1, base)

ValueOfDigit(c, base) == (CHOOSE v \in 1..base : BaseDigits(base)[v] = c) - 1

IsInteger(sub) ==
    /\ DigitsOf(sub) # <<>>
    /\ \A k \in 1..Len(DigitsOf(sub)) :
           \E v \in 1..BaseOf(sub) : BaseDigits(BaseOf(sub))[v] = DigitsOf(sub)[k]

RECURSIVE Magnitude(_, _)
Magnitude(ds, base) ==
    IF ds = <<>> THEN 0
    ELSE base * Magnitude(SubSeq(ds, 1, Len(ds) - 1), base)
         + ValueOfDigit(ds[Len(ds)], base)

IntegerOf(sub) ==
    IF sub[1] = "-" THEN 0 - Magnitude(DigitsOf(sub), BaseOf(sub))
    ELSE Magnitude(DigitsOf(sub), BaseOf(sub))

\* every field among ts has an integer for its subscript, if it has one
IntegerSubscripts(ts) ==
    \A k \in 1..Len(ts) : HasSubscript(ts[k]) => IsInteger(Subscript(ts[k]))

\* the positions of the fields among ts
FieldsOf(ts) == {k \in 1..Len(ts) : IsField(ts[k])}

\* the first field among ts
FirstField(ts) == ts[CHOOSE k \in FieldsOf(ts) : \A j \in FieldsOf(ts) : k <= j]

CannotSwitchToManual ==
    "ValueError: Cannot switch to manual format during auto format!"

CannotSwitchToAuto ==
    "ValueError: Cannot switch to auto format during manual format!"

\* the group numbers of the plan, in slot order
GroupNumbers == [k \in 1..Len(groups) |-> groups[k][2]]

\* the first field among ts of the other kind than the first field
FirstSwitch(ts) ==
    CHOOSE k \in FieldsOf(ts) :
        /\ IsAutomatic(ts[k]) # IsAutomatic(FirstField(ts))
        /\ \A j \in FieldsOf(ts) :
               IsAutomatic(ts[j]) # IsAutomatic(FirstField(ts)) => k <= j

\* what C22 says of the tokens ts of a compiled or refused format template
\* in which automatic and explicit fields are mixed or not
Exclusive(ts, mixed) ==
    /\ (mixed /\ IsAutomatic(FirstField(ts))) =>
           (pc = "raised" /\ exc = CannotSwitchToManual)
    /\ (mixed /\ IsExplicit(FirstField(ts))) =>
           (pc = "raised" /\ exc = CannotSwitchToAuto)
    /\ ~mixed => exc \notin {CannotSwitchToManual, CannotSwitchToAuto}
    /\ (~mixed /\ IsAutomatic(FirstField(ts)) /\ pc \in {"compiled", "expanded"}) =>
           /\ auto /\ ~manual
           /\ auto_index = Cardinality(FieldsOf(ts))
           /\ GroupNumbers = [k \in 1..Cardinality(FieldsOf(ts)) |-> k - 1]
    /\ (~mixed /\ IsExplicit(FirstField(ts)) /\ pc \in {"compiled", "expanded"}) =>
           manual /\ ~auto /\ auto_index = 0

Mixed(ts) ==
    \E j, k \in FieldsOf(ts) : IsAutomatic(ts[j]) /\ IsExplicit(ts[k])

\* C22 as claimed: addressing is exclusive within a format template.  The
\* auto and the manual flag are never both set; an explicit field behind a
\* first automatic one makes compilation fail with the
\* cannot-switch-to-manual error, an automatic field behind a first
\* explicit one with the cannot-switch-to-auto error; without such a mix
\* neither error is raised and the automatic fields of a compiled template
\* refer to the groups 0, 1, 2, ... in template order.
C22_EveryMixIsRefused ==
    /\ ~(auto /\ manual)
    /\ (use_format /\ pc \in {"compiled", "expanded", "raised"}
        /\ FieldsOf(FormatTokens) # {}) =>
           Exclusive(FormatTokens, Mixed(FormatTokens))

\* C22, amended: the same, the two errors being claimed only where the
\* field that switches and the fields in front of it have integers for
\* their subscripts; a subscript that is no integer is refused first.
C22_AddressingIsExclusive ==
    /\ ~(auto /\ manual)
    /\ (use_format /\ pc \in {"compiled", "expanded", "raised"}
        /\ FieldsOf(FormatTokens) # {}) =>
           /\ (Mixed(FormatTokens)
               /\ IntegerSubscripts(SubSeq(FormatTokens, 1, FirstSwitch(FormatTokens))))
                  => Exclusive(FormatTokens, TRUE)
           /\ ~Mixed(FormatTokens) => Exclusive(FormatTokens, FALSE)

\* three automatic fields have been compiled and expanded: groups 0, 1, 2
C22_AutomaticFieldsExpanded ==
    /\ pc = "expanded"
    /\ use_format
    /\ template = <<"{", "}", "{", "}", "{", "}">>
    /\ GroupNumbers = <<0, 1, 2>>

\* compilation has refused an explicit field behind an automatic one
C22_SwitchToManualRefused ==
    /\ pc = "raised"
    /\ template = <<"{", "}", "{", "1", "}">>
    /\ exc = CannotSwitchToManual

CaptureMustBeInteger == "ValueError: Capture index must be an integer!"

\* the n-th of the captures caps, counted from the end for a negative n
Occurrence(caps, n) ==
    IF n >= 0 THEN caps[n + 1] ELSE caps[Len(caps) + n + 1]

\* C23: the subscript of a field is read as an integer, in base 2, 8 or 16
\* behind 0b, 0o or 0x (a minus sign may stand in front), in base 10
\* otherwise.  For a template that is one field with a subscript: if the
\* subscript is such an integer, the group slot records it as the capture
\* and the expansion is that occurrence of the group, counted from the end
\* when negative; if it is not, compilation fails with the
\* capture-index-must-be-an-integer error.
C23_SubscriptIsParsedAsInteger ==
    (use_format /\ pc \in {"compiled", "expanded", "raised"}
     /\ FormatTokens = <<template>> /\ HasSubscript(template)) =>
        IF IsInteger(Subscript(template))
        THEN /\ exc # CaptureMustBeInteger
             /\ group_slots =
                    <<<<0, <<None, None, IntegerOf(Subscript(template))>>>>>>
             /\ pc = "expanded" =>
                    expanded = Occurrence(match[GroupNumbers[1]],
                                          IntegerOf(Subscript(template)))
        ELSE pc = "raised" /\ exc = CaptureMustBeInteger

\* the field {1[-0b1]} has been expanded to the last capture of group 1
C23_NegativeBinarySubscriptExpanded ==
    /\ pc = "expanded"
    /\ template = <<"{", "1", "[", "-", "0", "b", "1", "]", "}">>
    /\ group_slots = <<<<0, <<None, None, 0 - 1>>>>>>
    /\ expanded = <<"x", "Y">>

\* the text v in the span's case, then its first character in the
\* single-char directive's case
Spanned(v, span) == IF span # None THEN convert_case(v, span) ELSE v

Cased(v, span, single) ==
    IF single # None THEN FirstIn(Spanned(v, span), single) ELSE Spanned(v, span)

\* the first entry of the pairs ps for the position x
EntryFor(ps, x) ==
    ps[CHOOSE k \in 1..Len(ps) :
           ps[k][1] = x /\ \A j \in 1..(k - 1) : ps[j][1] # x][2]

\* what the plan stands for at position k of its literals on the match mt:
\* the literal, or the selected capture of the group in the slot's cases
SlotText(k, mt) ==
    IF literals[k] # NoLiteral THEN literals[k]
    ELSE Cased(Occurrence(mt[EntryFor(groups, k - 1)],
                          EntryFor(group_slots, k - 1)[3]),
               EntryFor(group_slots, k - 1)[1],
               EntryFor(group_slots, k - 1)[2])

\* C24: the expansion is the slots of the plan in order, a group slot
\* giving the selected capture with the span case applied to all of it and
\* then the single-char case to its first character.
C24_SlotsInOrderSpanThenSingle ==
    pc = "expanded" =>
        expanded = Flatten([k \in 1..Len(literals) |-> SlotText(k, match)])

\* \L\c{1} has been expanded on a match whose group 1 was captured twice:
\* the last capture xY comes out as Xy
C24_SpanAndSingleOnFieldExpanded ==
    /\ pc = "expanded"
    /\ template = <<BS, "L", BS, "c", "{", "1", "}">>
    /\ group_slots = <<<<0, <<_LOWER, _UPPER, 0 - 1>>>>>>
    /\ Len(match[1]) = 2
    /\ expanded = <<"X", "y">>

\* the group slots of the plan whose subscript the match mt has too few
\* captures for: a subscript n >= 0 needs more than n captures of the
\* group, a subscript n < 0 at least -n
TooFewCaptures(mt) ==
    {k \in 1..Len(literals) :
        /\ literals[k] = NoLiteral
        /\ LET n == EntryFor(group_slots, k - 1)[3]
               have == Len(mt[EntryFor(groups, k - 1)])
           IN IF n >= 0 THEN have <= n ELSE have < 0 - n}

\* C25: a subscript that is out of range for the captures of its group is
\* accepted by compilation and refused by expansion.  The out-of-range
\* error is raised by no step but expand on a compiled plan, and expand
\* raises it for exactly the matches in which a group of the plan has too
\* few captures for its subscript; when expand returns, no group had too
\* few and every slot gave the capture its subscript selects.
C25_OutOfRangeIsRaisedByExpansionOnly ==
    /\ [](/\ (pc = "raised" /\ exc = "IndexError") => TooFewCaptures(match) # {}
          /\ pc = "expanded" =>
                 /\ TooFewCaptures(match) = {}
                 /\ expanded = Flatten([k \in 1..Len(literals) |->
                                           SlotText(k, match)]))
    /\ [][/\ (exc' = "IndexError" /\ exc # "IndexError") => pc = "compiled"
          /\ (pc = "compiled" /\ TooFewCaptures(match) # {}) =>
                 (pc' = "raised" /\ exc' = "IndexError")
          /\ (pc = "compiled" /\ TooFewCaptures(match) = {}) => pc' = "expanded"]_vars

\* {1[8]} was compiled and refused by expand on a match whose group 1 was
\* captured twice
C25_SubscriptEightRefusedAtExpansion ==
    /\ pc = "raised"
    /\ exc = "IndexError"
    /\ template = <<"{", "1", "[", "8", "]", "}">>
    /\ group_slots = <<<<0, <<None, None, 8>>>>>>
    /\ literals = <<NoLiteral>>
    /\ Len(match[1]) = 2

-----------------------------------------------------------------------------
(* The module-level functions: what the claims speak of.  `call` is the   *)
(* last call; the precompiled forms are the Replace and the ReplaceTemplate *)
(* objects.                                                                *)

HashMismatch == "ValueError: Pattern hash doesn't match hash in compiled replace!"

IsPrecompiled(repl) == repl.type \in {"Replace", "ReplaceTemplate"}

\* the last call was compile_replace(pattern, repl) with a compiled pattern
\* and a precompiled replacement built for a pattern of another hash
MismatchedCompileReplace ==
    /\ call.fn = "compile_replace"
    /\ call.given.flags = 0
    /\ call.given.pattern.type = "Pattern"
    /\ IsPrecompiled(call.given.repl)
    /\ call.given.repl.pattern_hash # call.given.pattern.hash

\* C26: compile_replace accepts a precompiled replacement, a Replace or a
\* ReplaceTemplate, only with a pattern of the hash it was built for: with
\* a compiled pattern of another hash the call raises the hash-mismatch
\* error and returns no replace object.
C26_HashMismatchIsRefused ==
    MismatchedCompileReplace =>
        call.raises = HashMismatch /\ call.returns = None

\* the functions that expand in format mode, and the others
FormatFunctions == {"subf", "subfn", "expandf"}

PlainFunctions == {"sub", "subn", "expand"}

\* the error with which fn refuses a replacement compiled in the other mode
Rejection(fn) ==
    CASE fn \in {"sub", "subn"} ->
           "ValueError: Compiled replace cannot be a format object!"
      [] fn = "expand" ->
           "ValueError: Replace should not be compiled as a format replace!"
      [] fn \in {"subf", "subfn"} ->
           "ValueError: Compiled replace is not a format object!"
      [] fn = "expandf" -> "ValueError: Replace not compiled as a format replace"

Occurred(e) == \E k \in 1..Len(call.events) : call.events[k] = e

\* the ReplaceTemplate of a precompiled replacement
TemplateOf(repl) == IF repl.type = "Replace" THEN repl.func ELSE repl

\* the Replace object o carries the mode its template was compiled in: the
\* plan is the one the constructor builds from the template in that mode
TaggedWithItsMode(o) ==
    /\ o.use_format = o.func.use_format
    /\ o.func.plan = construct(ReplaceTemplate(o.func.plan.string, o.use_format),
                               FALSE)

\* C27: a precompiled replacement is never used in the other mode.  sub,
\* subn and expand refuse one compiled in format mode, subf, subfn and
\* expandf one compiled in non-format mode, each before the pattern is
\* compiled, a template is compiled or a match is expanded; a precompiled
\* replacement that was expanded had the mode of the function; and every
\* Replace object, kept or just returned by compile_replace, is tagged with
\* the mode its template was compiled in (for a string, the FORMAT flag of
\* the call).
C27_WrongModeIsRefusedFirst ==
    /\ (call.fn \in PlainFunctions \cup FormatFunctions
        /\ IsPrecompiled(call.given.repl)) =>
           IF call.given.repl.use_format = (call.fn \in FormatFunctions)
           THEN call.raises # Rejection(call.fn)
           ELSE /\ call.raises = Rejection(call.fn)
                /\ call.returns = None
                /\ call.events = <<>>
    /\ (call.fn \in PlainFunctions \cup FormatFunctions
        /\ IsPrecompiled(call.given.repl) /\ Occurred("expand")) =>
           TemplateOf(call.given.repl).plan.use_format
               = (call.fn \in FormatFunctions)
    /\ \A o \in objects : o.type = "Replace" => TaggedWithItsMode(o)
    /\ (call.fn = "compile_replace" /\ call.raises = "None") =>
           /\ TaggedWithItsMode(call.returns)
           /\ call.given.repl.type = "str" =>
                  /\ call.returns.use_format = (call.given.flags = FORMAT)
                  /\ call.returns.func.plan.string = call.given.repl.text

\* subf has refused a Replace object compiled in non-format mode, and did
\* nothing else
C27_SubfRefusedPlainReplace ==
    /\ call.fn = "subf"
    /\ call.given.repl.type = "Replace"
    /\ call.given.repl \in objects
    /\ ~call.given.repl.use_format
    /\ call.given.pattern.type = "Pattern"
    /\ call.given.pattern.hash = call.given.repl.pattern_hash
    /\ call.raises = "ValueError: Compiled replace is not a format object!"
    /\ call.events = <<>>

-----------------------------------------------------------------------------
(* Expanders on one compiled template: what the claims speak of.           *)

\* the plan of the template as the constructor left it
AsCompiled == construct(ReplaceTemplate(template, use_format), FALSE)

\* one expansion alone: the template compiled afresh and expanded on mt
Alone(mt) == run(ReplaceTemplate(template, use_format), FALSE, mt)

\* C28: expansion does not modify the compiled plan.  Whatever expanders
\* have run or are running on it, in whatever interleaving, its literal
\* slots, its group slots with their case metadata, its groups and its
\* literals are those compilation left; an expander that has returned gives
\* the string an expansion of its match alone gives, one that has raised
\* raised as that one does, and expanders of the same match return the same
\* string.
C28_ExpansionLeavesThePlan ==
    /\ literal_slots = AsCompiled.literal_slots
    /\ group_slots = AsCompiled.group_slots
    /\ groups = AsCompiled.groups
    /\ literals = AsCompiled.literals
    /\ \A i \in 1..Len(expanders) :
           /\ expanders[i].pc = "returned" =>
                  /\ Alone(expanders[i].match).pc = "expanded"
                  /\ expanders[i].returned = Alone(expanders[i].match).expanded
           /\ expanders[i].pc = "raised" =>
                  /\ Alone(expanders[i].match).pc = "raised"
                  /\ expanders[i].exc = Alone(expanders[i].match).exc
    /\ \A i, j \in 1..Len(expanders) :
           (/\ expanders[i].pc = "returned"
            /\ expanders[j].pc = "returned"
            /\ expanders[i].match = expanders[j].match) =>
               expanders[i].returned = expanders[j].returned

\* two expanders of {1[0]}a{2} on different matches: the second has
\* returned abacD while the first, in the middle of its loop, holds xY
C28_SecondReturnedWhileFirstInLoop ==
    /\ template = <<"{", "1", "[", "0", "]", "}", "a", "{", "2", "}">>
    /\ Len(expanders) = 2
    /\ expanders[1].pc = "loop"
    /\ expanders[1].x = 1
    /\ expanders[1].text = <<<<"x", "Y">>>>
    /\ expanders[2].pc = "returned"
    /\ expanders[2].match # expanders[1].match
    /\ expanders[2].returned = <<"a", "b", "a", "c", "D">>

-----------------------------------------------------------------------------
(* Properties of process_quotes alone: string is what it returned, from    *)
(* the first step of apply on.                                             *)

\* s opens a quoted span at its first backslash
OpensQuote(s) ==
    /\ Occurs(s, BS)
    /\ FirstBackslash(s) < Len(s)
    /\ s[FirstBackslash(s) + 1] = "Q"

\* the text in front of the first \Q of s, and the text behind it
SpanBefore(s) == DanglingBefore(s)

SpanOpened(s) == DanglingRest(s)

\* the span of s is closed by a \E that only text without a backslash follows
ClosesQuote(s) ==
    /\ Occurs(s, BS)
    /\ FirstBackslash(s) < Len(s)
    /\ s[FirstBackslash(s) + 1] = "E"
    /\ ~Occurs(DanglingRest(s), BS)

\* s is text, \Q, text, a second \Q, text, and then either nothing or a \E
\* and text; no other backslash occurs
HasNestedQuote(s) ==
    /\ OpensQuote(s)
    /\ OpensQuote(SpanOpened(s))
    /\ \/ ~Occurs(SpanOpened(SpanOpened(s)), BS)
       \/ ClosesQuote(SpanOpened(SpanOpened(s)))

\* the text between the two \Q, the text behind the second one up to the
\* end of the span, and the text behind the span
NestedFirst(s) == SpanBefore(SpanOpened(s))

NestedSecond(s) ==
    IF Occurs(SpanOpened(SpanOpened(s)), BS)
    THEN DanglingBefore(SpanOpened(SpanOpened(s)))
    ELSE SpanOpened(SpanOpened(s))

NestedAfter(s) ==
    IF Occurs(SpanOpened(SpanOpened(s)), BS)
    THEN DanglingRest(SpanOpened(SpanOpened(s)))
    ELSE <<>>

\* what process_quotes returns when the span of s holds the text q
Quoting(s, q) == SpanBefore(s) \o escape(q) \o NestedAfter(s)

\* C29 as stated: a \Q met inside an open span opens no nested span and
\* leaves the single letter Q, without a backslash, in the quoted text.
C29_NestedQuoteIsBareQ ==
    (pc # "init" /\ HasNestedQuote(search)) =>
        string = Quoting(search, NestedFirst(search) \o <<"Q">>
                                     \o NestedSecond(search))

\* C29: a \Q met inside an open span opens no nested span and is literal
\* text: the quoted text holds its backslash and its Q, and one span goes
\* from the first \Q to the first \E behind it or to the end of the pattern.
C29_NestedQuoteIsLiteralText ==
    (pc # "init" /\ HasNestedQuote(search)) =>
        string = Quoting(search, NestedFirst(search) \o <<BS, "Q">>
                                     \o NestedSecond(search))

\* apply has returned for a pattern whose span holds text, a \Q and text
\* again, is closed and is followed by text
C29_NestedQuoteInClosedSpan ==
    /\ pc = "done"
    /\ HasNestedQuote(search)
    /\ NestedFirst(search) # <<>>
    /\ NestedSecond(search) # <<>>
    /\ NestedAfter(search) # <<>>
    /\ Contains(string, <<BS, BS, "Q">>)

\* a run of n backslashes and the letter c, between the texts pre and post
RunBefore(pre, n, c, post) == pre \o Backslashes(n) \o <<c>> \o post

\* text without a backslash around the run
ParityText == {<<>>, <<"a">>}

\* what closes the span the run stands in: nothing, or a \E and text
ParityClose == {<<>>, <<BS, "E", "a">>}

\* the text behind the span
AfterClose(close) == IF close = <<>> THEN <<>> ELSE Slice(close, 2, Len(close))

\* new_pattern when the run is no escape outside a span: the pattern as
\* written, pairs of backslashes and the letter
EvenRunOutside ==
    \A pre \in ParityText, post \in ParityText, c \in ExtendedEscapes :
        \A n \in {k \in 0..MaxRun : k % 2 = 0} :
            search = RunBefore(pre, n, c, post) => new_pattern = search

\* new_pattern when the run is no escape inside a span: the backslashes and
\* the letter are quoted text like the text around them
EvenRunInside ==
    \A pre \in ParityText, close \in ParityClose, c \in ExtendedEscapes :
        \A n \in {k \in 0..MaxRun : k % 2 = 0} :
            search = RunBefore(<<BS, "Q">> \o pre, n, c, close) =>
                new_pattern = escape(RunBefore(pre, n, c, <<>>)) \o AfterClose(close)

\* C30: a Q, E, <, >, R or e behind a run of backslashes of even length is
\* no extended escape: the backslashes come out as escaped pairs and the
\* letter as ordinary text, outside a quoted span and inside one.
C30_EvenRunIsNoEscape ==
    pc = "done" => (EvenRunOutside /\ EvenRunInside)

-----------------------------------------------------------------------------
(* Retries, character classes and verbose comments of the search template. *)

\* a RetryException has reached the body loop of the innermost group
LocalRetryPending ==
    /\ exc = "RetryException"
    /\ frames # <<>>
    /\ Top(frames).fn = "subgroup"

\* C31: a verbosity change signalled inside a parenthesised group makes the
\* innermost enclosing group scan its body again: the tokenizer goes back to
\* just behind that group's opening token, the new verbosity stays in
\* effect, the output of every enclosing call is kept as it was, and the
\* group's own output starts again from its opening token alone.
C31_LocalRetryRescansGroupBody ==
    [][LocalRetryPending =>
           /\ exc' = "None"
           /\ index' = Top(frames).index
           /\ Slice(string, index' - Len(Top(frames).start), index')
                  = Top(frames).start
           /\ verbose' = verbose
           /\ version' = version
           /\ Pop(frames') = Pop(frames)
           /\ Top(frames') = [Top(frames) EXCEPT !.current = Top(frames).start]]_vars

\* apply has returned after a group scanned its body again with verbose
\* switched on, text in front of the group already being in the output
C31_GroupBodyScannedAgain ==
    /\ pc = "done"
    /\ ~re_verbose
    /\ \E m \in reentries :
           /\ Len(m.frames) > 1
           /\ m.verbose
           /\ m.frames[1].current # <<>>
           /\ Top(m.frames).fn = "subgroup"
           /\ Top(m.frames).current = Top(m.frames).start

\* C32: when a flag group outside every parenthesised group has switched
\* the dialect, apply returns what it returns for the same pattern when
\* that dialect is given as the initial one.  (In the patterns checked every
\* flag group naming a dialect stands outside every group.)
C32_GlobalRetryEqualsInitialDialect ==
    (pc = "done" /\ applied # <<>> /\ applied[1].switched) =>
        new_pattern = applied[1].new_pattern

\* s is a class whose first member, behind the bracket or behind a leading
\* ^, is a ], a body without brackets, the closing ], and then either
\* nothing or \<
BracketFirstLead(s) == IF Len(s) >= 2 /\ s[2] = "^" THEN 2 ELSE 1

\* the position of the ] that closes the class of s
BracketFirstClose(s) ==
    CHOOSE k \in (BracketFirstLead(s) + 2)..Len(s) :
        /\ s[k] = "]"
        /\ \A j \in (BracketFirstLead(s) + 2)..(k - 1) : s[j] # "]"

IsBracketFirst(s) ==
    /\ Len(s) >= BracketFirstLead(s) + 2
    /\ s[1] = "["
    /\ s[BracketFirstLead(s) + 1] = "]"
    /\ \E k \in (BracketFirstLead(s) + 2)..Len(s) : s[k] = "]"
    /\ \A k \in (BracketFirstLead(s) + 2)..Len(s) :
           /\ s[k] \notin {"[", "Q", "E", "e", "("}
           /\ (s[k] = "]" => (k = BracketFirstClose(s) /\ s[k - 1] # BS))
    /\ SubSeq(s, BracketFirstClose(s) + 1, Len(s)) \in {<<>>, <<BS, "<">>}

\* C33: a ] directly behind the opening bracket of a class, or directly
\* behind its leading ^, is a member of the class and does not close it: the
\* class runs to the next ], the shorthands and # in between are copied as
\* class content, and what follows that ] is scanned as pattern text.
C33_BracketFirstIsMember ==
    (pc = "done" /\ IsBracketFirst(search)) =>
        new_pattern = SubSeq(search, 1, BracketFirstClose(search))
                      \o Expand(SubSeq(search, BracketFirstClose(search) + 1,
                                       Len(search)), binary)

\* apply has returned, verbose on, the class [^]#\<] with its ] first, # and
\* shorthand kept, and the shorthand behind the class expanded
C33_BracketFirstClassReturned ==
    /\ pc = "done"
    /\ re_verbose
    /\ search = <<"[", "^", "]", "#", BS, "<", "]", BS, "<">>
    /\ new_pattern = <<"[", "^", "]", "#", BS, "<", "]">> \o _re_start_wb

\* a POSIX class [:a:] stands at position k of s
PosixAt(s, k) == Slice(s, k - 1, k + 4) = <<"[", ":", "a", ":", "]">>

\* the position of the first member of the class whose bracket is at k:
\* behind the bracket, or behind the ^ that directly follows the bracket
FirstMember(s, k) == IF k < Len(s) /\ s[k + 1] = "^" THEN k + 2 ELSE k + 1

\* the position of the ] that ends the class being read at position k of s,
\* opens holding the first-member position of every class that is open (the
\* depth is Len(opens)); Len(s) + 1 if the class is not ended
RECURSIVE ClassEnd(_, _, _, _)
ClassEnd(s, k, opens, v1) ==
    IF k > Len(s) THEN Len(s) + 1
    ELSE IF s[k] = BS THEN ClassEnd(s, k + 2, opens, v1)
    ELSE IF s[k] = "[" /\ PosixAt(s, k) THEN ClassEnd(s, k + 5, opens, v1)
    ELSE IF s[k] = "[" /\ v1
    THEN ClassEnd(s, FirstMember(s, k), Append(opens, FirstMember(s, k)), v1)
    ELSE IF s[k] = "]" /\ k # opens[Len(opens)]
    THEN IF Len(opens) = 1 THEN k
         ELSE ClassEnd(s, k + 1, SubSeq(opens, 1, Len(opens) - 1), v1)
    ELSE ClassEnd(s, k + 1, opens, v1)

\* s from position k on as apply is to return it: classes as written, each
\* from its bracket to the ] that brings the depth back to zero, and the
\* shorthands outside them expanded
RECURSIVE ClassesKept(_, _, _)
ClassesKept(s, k, v1) ==
    IF k > Len(s) THEN <<>>
    ELSE IF s[k] = "["
    THEN LET e == ClassEnd(s, FirstMember(s, k), <<FirstMember(s, k)>>, v1)
         IN Slice(s, k - 1, e) \o ClassesKept(s, e + 1, v1)
    ELSE IF s[k] = BS /\ k < Len(s)
    THEN Expansion(s[k + 1], FALSE) \o ClassesKept(s, k + 2, v1)
    ELSE <<s[k]>> \o ClassesKept(s, k + 1, v1)

\* s is made of brackets, ^, the POSIX class [:a:] and a final \<
IsDepthPattern(s) ==
    /\ Len(s) >= 3
    /\ s[1] = "["
    /\ SubSeq(s, Len(s) - 1, Len(s)) = <<BS, "<">>
    /\ \A k \in 1..(Len(s) - 2) : s[k] \in {"[", "]", "^", ":", "a"}
    /\ \A k \in 1..(Len(s) - 2) :
           s[k] \in {":", "a"} => \E j \in (k - 3)..(k - 1) : j >= 1 /\ PosixAt(s, j)

\* C34: under V1 every unescaped [ in a class that starts no POSIX class
\* opens a nested class and every ] that is not the first member of its
\* class closes one, the class ending where the depth is back at zero; under
\* V0 no [ nests and the first ] that is not the first member ends the
\* class; a POSIX class is copied as one unit and changes no depth.
C34_ClassEndsAtDepthZero ==
    (pc = "done" /\ ~binary /\ IsDepthPattern(search)) =>
        new_pattern = ClassesKept(search, 1, version = VERSION1)

\* s is a class [body] of \e, \< and e, with nothing or \e behind it
IsEscapeClass(s) ==
    /\ Len(s) >= 2
    /\ s[1] = "["
    /\ \E k \in 2..Len(s) :
           /\ s[k] = "]"
           /\ \A j \in 2..(k - 1) : s[j] \in {BS, "e", "<"}
           /\ SubSeq(s, k + 1, Len(s)) \in {<<>>, <<BS, "e">>}

\* the position of the ] of such a class
EscapeClassClose(s) == CHOOSE k \in 2..Len(s) : s[k] = "]"

\* the ESC escape as the returned pattern spells it
EscEscape == <<BS, "x", "1", "b">>

\* the members s of a class with every \e replaced by the ESC escape and
\* everything else, the other shorthands included, as written
RECURSIVE ClassWithEsc(_)
ClassWithEsc(s) ==
    IF s = <<>> THEN <<>>
    ELSE IF s[1] = BS /\ Len(s) >= 2
    THEN (IF s[2] = "e" THEN EscEscape ELSE <<BS, s[2]>>)
         \o ClassWithEsc(SubSeq(s, 3, Len(s)))
    ELSE <<s[1]>> \o ClassWithEsc(Tail(s))

\* \e behind the class, expanded
EscapeClassRest(s) ==
    IF EscapeClassClose(s) = Len(s) THEN <<>> ELSE EscEscape

IsCommentPattern(s) ==
    /\ Len(s) >= 1
    /\ s[1] = "#"
    /\ \A k \in 2..Len(s) : s[k] \in {BS, "<", "R", "Q", "E", "k", "a", NL}
    /\ \A k \in 2..Len(s) :
           s[k] = NL => SubSeq(s, k + 1, Len(s)) \in {<<>>, <<BS, "<">>}

\* the length of the comment s starts with: up to and including the first
\* newline, or all of s
CommentLen(s) ==
    IF Occurs(s, NL) THEN CHOOSE k \in 1..Len(s) : s[k] = NL /\ ~Occurs(SubSeq(s, 1, k - 1), NL)
    ELSE Len(s)

\* the comment text s as it is to be emitted: an escape of e, R, Q, E, < or
\* > with one more backslash in front, everything else as written
RECURSIVE CommentKept(_)
CommentKept(s) ==
    IF s = <<>> THEN <<>>
    ELSE IF s[1] = BS /\ Len(s) >= 2
    THEN (IF s[2] \in ExtendedEscapes THEN <<BS, BS, s[2]>> ELSE <<BS, s[2]>>)
         \o CommentKept(SubSeq(s, 3, Len(s)))
    ELSE <<s[1]>> \o CommentKept(Tail(s))

\* C36: in a verbose-mode # comment an escape of e, R, Q, E, < or > is
\* emitted with one more backslash in front of it and every other character
\* of the comment, other escapes included, as written; the comment runs up
\* to and including the first newline, or to the end of the pattern, and the
\* text behind it is scanned as usual.
C36_CommentEscapesDoubled ==
    (pc = "done" /\ re_verbose /\ IsCommentPattern(search)) =>
        new_pattern = CommentKept(SubSeq(search, 1, CommentLen(search)))
                      \o Expand(SubSeq(search, CommentLen(search) + 1,
                                       Len(search)), binary)

-----------------------------------------------------------------------------
(* Expansion against the match of another pattern *)

\* the call is expand or expandf with a match and a precompiled replacement
\* built for a pattern of another hash than the pattern of the match
MismatchedExpand ==
    /\ call.fn \in {"expand", "expandf"}
    /\ call.given.m.type = "Match"
    /\ IsPrecompiled(call.given.repl)
    /\ call.given.repl.pattern_hash # hash(call.given.m.re)

\* C37: expanding a compiled replacement against a match of a pattern other
\* than the one it was compiled for is refused: the call raises, nothing is
\* expanded and no string is returned.
C37_MismatchedExpandIsRefused ==
    MismatchedExpand =>
        /\ call.raises # "None"
        /\ call.returns = None
        /\ ~Occurs(call.events, "expand")

-----------------------------------------------------------------------------
(* Verbosity and groups *)

\* s is made of flag groups (?x) and (?V1), letters a and comment lines
RECURSIVE IsGroupBody(_)
IsGroupBody(s) ==
    \/ s = <<>>
    \/ \E c \in GroupBodyChars :
           /\ Slice(s, 0, Len(c)) = c
           /\ IsGroupBody(SubSeq(s, Len(c) + 1, Len(s)))

\* the last n elements of s, nothing if s is shorter
Last(s, n) == IF Len(s) >= n THEN SubSeq(s, Len(s) - n + 1, Len(s)) ELSE <<>>

\* s is one group, plain or opened by (?x:, with such a body, open at the
\* end of s or closed with #\< behind it
IsVerbosityGroup(s) ==
    \E open \in GroupOpens, post \in {<<>>, <<")", "#", BS, "<">>} :
        /\ Len(s) >= Len(open) + Len(post)
        /\ Slice(s, 0, Len(open)) = open
        /\ Last(s, Len(post)) = post
        /\ IsGroupBody(SubSeq(s, Len(open) + 1, Len(s) - Len(post)))

\* the group of s is closed and #\< stands behind it
GroupClosed(s) ==
    Len(s) >= 4 /\ SubSeq(s, Len(s) - 3, Len(s)) = <<")", "#", BS, "<">>

\* #\< as it comes out where # starts a comment, and where it does not
AsComment == <<"#", BS, BS, "<">>

AsText == <<"#">> \o _re_start_wb

\* C38: verbosity changed inside a group, by its scoped flag or by a flag
\* group of its body, does not outlive the group: when the group has closed
\* or the pattern has ended inside it, verbose mode is what it was in front
\* of the group, and a # behind the group starts a comment exactly if one in
\* front of the group would have.
C38_VerbosityEndsWithGroup ==
    (pc = "done" /\ IsVerbosityGroup(search)) =>
        /\ verbose = re_verbose
        /\ GroupClosed(search) =>
               IF re_verbose
               THEN Last(new_pattern, Len(AsComment)) = AsComment
               ELSE Last(new_pattern, Len(AsText)) = AsText

-----------------------------------------------------------------------------
(* References without a subscript *)

\* no reference of the template has a subscript
NoSubscript == ~Occurs(template, "[")

\* the group positions of the plan whose group has no capture in the match
EmptyGroups ==
    {k \in 1..Len(literals) :
        literals[k] = NoLiteral /\ match[EntryFor(groups, k - 1)] = <<>>}

\* what a reference without a subscript stands for at position k of the
\* literals: the last capture of its group, in the cases of its slot
LastCaptureText(k) ==
    IF literals[k] # NoLiteral THEN literals[k]
    ELSE Cased(match[EntryFor(groups, k - 1)][Len(match[EntryFor(groups, k - 1)])],
               EntryFor(group_slots, k - 1)[1],
               EntryFor(group_slots, k - 1)[2])

\* C39: a group reference without a subscript (\1, \g<name>, {1}, {})
\* resolves to the last capture of its group: its slot holds the capture
\* index -1, expansion substitutes the last capture, and when a referenced
\* group has no capture in the match expansion ends with the out-of-range
\* error instead of substituting empty text.
C39_UnsubscriptedIsLastCapture ==
    /\ [](NoSubscript =>
             /\ \A k \in 1..Len(group_slots) : group_slots[k][2][3] = 0 - 1
             /\ pc = "expanded" =>
                    /\ EmptyGroups = {}
                    /\ expanded = Flatten([k \in 1..Len(literals) |->
                                              LastCaptureText(k)])
             /\ (pc = "raised" /\ exc = "IndexError") => EmptyGroups # {})
    /\ [][(NoSubscript /\ pc = "compiled" /\ EmptyGroups # {}) =>
              (pc' = "raised" /\ exc' = "IndexError" /\ expanded' = <<>>)]_vars

\* \c\g<w> was compiled to a slot with capture -1 and refused by expand on a
\* match in which group w took no part
C39_NamedReferenceToEmptyGroupRefused ==
    /\ pc = "raised"
    /\ exc = "IndexError"
    /\ template = <<BS, "c", BS, "g", "<", "w", ">">>
    /\ group_slots = <<<<0, <<None, _UPPER, 0 - 1>>>>>>
    /\ match[1] = <<>>

-----------------------------------------------------------------------------
(* Binary and text templates *)

\* the constructor has ended: it returned the plan or raised
CompileEnded == pc = "compiled" \/ (pc = "raised" /\ exc # "IndexError")

\* the ended constructor o of the other mode succeeded exactly if this one
\* did, and with the same literal slots and group slots
SamePlan(o) ==
    /\ (o.pc = "raised") <=> (pc = "raised")
    /\ pc = "compiled" =>
           /\ o.literal_slots = literal_slots
           /\ o.group_slots = group_slots

\* C40: a plain template of ASCII characters, case directives, group
\* references and octal or hex escapes of one byte compiles as a binary
\* template exactly if it compiles as a text template, and to the same
\* literal slots and group slots; so an octal escape in a span with a
\* single-char directive pending gives the same converted character in both.
C40_BinaryAndTextAgree ==
    (CompileEnded /\ ~use_format) =>
        \A o \in {construct(ReplaceTemplate(template, use_format), ~binary)} :
            SamePlan(o)

====
